---------------------------- MODULE Spec2Model ----------------------------
(***************************************************************************)
(* civicteam/auth-mcp: the bearer-token authenticator (McpServerAuth),     *)
(* the protected-route middleware (auth), and the legacy OAuth proxy       *)
(* (OAuthProxyHandler with its StateStore).                                *)
(*                                                                         *)
(* Strings that the code inspects by prefix (paths, headers) or splits are *)
(* sequences of atoms; startsWith, concatenation and split on them are the *)
(* string operations.  Other strings are TLA+ strings.                     *)
(***************************************************************************)
EXTENDS Integers, Sequences, FiniteSets, TLC

VARIABLES
    options,      \* CivicAuthOptions handed to auth() / McpServerAuth.init
    oidcConfig,   \* OIDC discovery configuration fetched by init
    pc,           \* per request: where tokenValidationMiddleware/handleRequest is
    req,          \* per request: method, path, Authorization header
    log,          \* per request: the calls handleRequest has made, in order
    loginArgs,    \* per request: the candidates onLogin was invoked with
    loginRet,     \* per request: what onLogin settled with
    outcome,      \* per request: what handleRequest returned or threw
    resp,         \* per request: the HTTP response written by the router
    downstream,   \* per request: next() was called (downstream handler reached)
    reqAuth,      \* per request: req.auth
    states,       \* InMemoryStateStore.states: internal state key -> OAuthState
    now,          \* Date.now()
    flow,         \* per generated key: the authorize request that made it
    authResp,     \* the response handleAuthorize wrote last
    cb,           \* per callback request: where handleCallback is, and its response
    consumed,     \* keys a callback has deleted from the store
    redirected,   \* per key: callbacks answered with a redirect to the client
    authReq,      \* the request handleAuthorize answered last
    lastGet,      \* the last get made on the store directly, and its result
    hist,         \* what was set, and what went, in the store driven directly
    tok,          \* handleToken: its request, what it sent upstream, its response
    reg,          \* handleRegistration: likewise
    inputInfo,    \* createAuthInfo applied to a token and its verified claims
    cli,          \* CLIClient.connect: where it is, its attempts, how it ended
    prov,         \* CLIAuthProvider: its promise, transport, callback server
    router        \* LegacyOAuthRouter: its configuration, routes, last answer

authVars == <<pc, req, log, loginArgs, loginRet, outcome, resp, downstream, reqAuth>>

proxyVars == <<states, now, flow, authResp, cb, consumed, redirected, authReq>>

storeVars == <<lastGet, hist>>

fwdVars == <<tok, reg>>

pureVars == <<inputInfo>>

clientVars == <<cli, prov>>

routerVars == <<router>>

(***************************************************************************)
(* Requests.  handleRequest keeps no state between requests, so the        *)
(* middleware is driven with one request in flight (OneReq); both are in   *)
(* flight only where the interleaving of two handleRequest calls matters.  *)
(***************************************************************************)
Reqs == {"r1", "r2"}

OneReq == {"r1"}

(***************************************************************************)
(* Values                                                                  *)
(***************************************************************************)
Undef == "undefined"

\* JavaScript falsiness of a string-or-undefined value
Falsy(s) == s = Undef \/ s = ""

Null == [null |-> TRUE]

StartsWith(s, p) == Len(s) >= Len(p) /\ SubSeq(s, 1, Len(p)) = p

DEFAULT_WELLKNOWN_URL == "https://auth.civic.com/oauth/.well-known/openid-configuration"

CUSTOM_WELLKNOWN_URL == "https://custom.auth.com/.well-known/openid-configuration"

DEFAULT_MCP_ROUTE == <<"/", "mcp">>

PUBLIC_CIVIC_CLIENT_ID == "12220cf4-1a9a-4964-8eb7-7c6d7d049f34"

EXPECTED_CLIENT_ID == "expected-client-id"

MetadataPath == <<"/", ".well-known", "/", "oauth-protected-resource">>

LEGACY_WELL_KNOWN == <<"/", ".well-known", "/", "oauth-authorization-server">>

LEGACY_AUTHORIZE == <<"/", "authorize">>

LEGACY_TOKEN == <<"/", "token">>

LEGACY_REGISTER == <<"/", "register">>

LEGACY_CALLBACK == <<"/", "oauth", "/", "callback">>

(***************************************************************************)
(* Inputs: tokens and what jose's jwtVerify makes of them                  *)
(***************************************************************************)
Payload(cid, tid, aud, hasScope, scope) ==
    [sub |-> "user123", client_id |-> cid, tid |-> tid, aud |-> aud,
     hasScope |-> hasScope, scope |-> scope, exp |-> 1234567890]

NoPayload == Payload(Undef, Undef, Undef, FALSE, <<>>)

Tokens == {"t_expired", "t_garbled", "t_cidE", "t_tidE", "t_other", "t_public", "t_aud"}

\* jwtVerify(token, jwks, {issuer}): resolves with the payload or rejects.
\* thrown is what it rejected with: an Error carrying a message, or a
\* non-Error value.
jwtVerify(token) ==
    CASE token = "t_expired" ->
           [ok |-> FALSE, isError |-> TRUE,
            message |-> <<"\"exp\" claim timestamp check failed">>, payload |-> NoPayload]
      [] token = "t_garbled" ->
           [ok |-> FALSE, isError |-> FALSE, message |-> <<>>, payload |-> NoPayload]
      [] token = "t_cidE" ->
           [ok |-> TRUE, isError |-> FALSE, message |-> <<>>,
            payload |-> Payload(EXPECTED_CLIENT_ID, "tenant-x", Undef, TRUE, <<"openid">>)]
      [] token = "t_tidE" ->
           [ok |-> TRUE, isError |-> FALSE, message |-> <<>>,
            payload |-> Payload("dynamic-client-id", EXPECTED_CLIENT_ID, Undef, TRUE,
                                <<"openid", " ", "profile">>)]
      [] token = "t_other" ->
           [ok |-> TRUE, isError |-> FALSE, message |-> <<>>,
            payload |-> Payload("wrong-client-id", "tenant-y", Undef, TRUE, <<"openid">>)]
      [] token = "t_public" ->
           [ok |-> TRUE, isError |-> FALSE, message |-> <<>>,
            payload |-> Payload(PUBLIC_CIVIC_CLIENT_ID, Undef, Undef, TRUE, <<"openid">>)]
      [] OTHER ->
           [ok |-> TRUE, isError |-> FALSE, message |-> <<>>,
            payload |-> Payload(Undef, PUBLIC_CIVIC_CLIENT_ID, PUBLIC_CIVIC_CLIENT_ID,
                                FALSE, <<>>)]

\* Authorization header values: absent, another scheme, a scheme in the wrong
\* case, and "Bearer " followed by a token.
Headers ==
    {<<>>, <<"Basic ", "abc123xyz">>, <<"bearer ", "t_public">>}
      \cup {<<"Bearer ", t>> : t \in Tokens}

Methods == {"GET", "POST"}

Paths ==
    {<<"/", "mcp">>, <<"/", "mcp", "/", "test">>, <<"/", "mcp", "-other">>,
     <<"/", "api", "/", "test">>, <<"/", "test">>,
     MetadataPath, MetadataPath \o <<"/", "mcp">>,
     LEGACY_WELL_KNOWN, LEGACY_AUTHORIZE, LEGACY_TOKEN, LEGACY_REGISTER, LEGACY_CALLBACK}

\* an option that holds a string the code takes apart, when it is not set
Unset == <<Undef>>

McpRoutes == {Unset, <<"/", "api">>, <<"/">>}

(***************************************************************************)
(* McpServerAuth                                                           *)
(***************************************************************************)
\* options.wellKnownUrl || DEFAULT_WELLKNOWN_URL
wellKnownUrl(opts) ==
    IF Falsy(opts.wellKnownUrl) THEN DEFAULT_WELLKNOWN_URL ELSE opts.wellKnownUrl

\* expectedClientId falling back to the public client for every server
expectedClientId_always(opts) ==
    IF ~Falsy(opts.clientId) THEN opts.clientId ELSE PUBLIC_CIVIC_CLIENT_ID

\* The expected client identifier: an explicit client ID, else the public
\* sandbox client when the authorization server is the default one, else none.
expectedClientId(opts) ==
    IF ~Falsy(opts.clientId) THEN opts.clientId
    ELSE IF wellKnownUrl(opts) = DEFAULT_WELLKNOWN_URL THEN PUBLIC_CIVIC_CLIENT_ID
    ELSE Undef

\* bindingCheck requiring both claims to match
bindingCheck_and(payload, expected) ==
    Falsy(expected) \/ (payload.client_id = expected /\ payload.tid = expected)

\* The client/tenant binding check on a verified payload.
bindingCheck(payload, expected) ==
    Falsy(expected) \/ payload.client_id = expected \/ payload.tid = expected

bindingMessage(expected) ==
    <<"Invalid client_id or tid in token. Expected: ", expected>>

\* hasBearer taking any scheme for a bearer token
hasBearer_any(authHeader) == Len(authHeader) > 0

\* authHeader?.startsWith("Bearer ")
hasBearer(authHeader) == StartsWith(authHeader, <<"Bearer ">>)

\* authHeader.substring(7)
bearerToken(authHeader) == authHeader[2]

\* the catch block of extractBearerToken: the message of the JWTVerificationError
wrappedMessage(v) == IF v.isError THEN v.message ELSE <<"JWT verification failed">>

RECURSIVE split(_)
\* String.prototype.split(" ")
split(s) ==
    IF \E i \in 1..Len(s) : s[i] = " "
    THEN LET i == CHOOSE j \in 1..Len(s) :
                      s[j] = " " /\ \A l \in 1..(j - 1) : s[l] # " "
         IN  <<SubSeq(s, 1, i - 1)>> \o split(SubSeq(s, i + 1, Len(s)))
    ELSE <<s>>

\* inputAuthInfo taking the scope claim as one scope
inputAuthInfo_unsplit(token, payload) ==
    [token |-> token,
     clientId |-> IF Falsy(payload.client_id) THEN payload.aud ELSE payload.client_id,
     scopes |-> IF payload.hasScope /\ payload.scope # <<>> THEN <<payload.scope>> ELSE <<>>,
     expiresAt |-> payload.exp,
     extra |-> [sub |-> payload.sub]]

\* createAuthInfo: the candidate built from the token and its payload
inputAuthInfo(token, payload) ==
    [token |-> token,
     clientId |-> IF Falsy(payload.client_id) THEN payload.aud ELSE payload.client_id,
     scopes |-> IF payload.hasScope /\ payload.scope # <<>> THEN split(payload.scope) ELSE <<>>,
     expiresAt |-> payload.exp,
     extra |-> [sub |-> payload.sub]]

\* What a caller-supplied onLogin may do with (candidate, request).
\* It returns an identity or null, or throws: an Error, or the
\* AuthenticationError the library exports.
OnLoginOutcomes(candidate) ==
    {[kind |-> "return", class |-> "", value |-> Null, message |-> <<>>],
     [kind |-> "return", class |-> "", value |-> candidate, message |-> <<>>],
     [kind |-> "return", class |-> "", message |-> <<>>,
      value |-> [token |-> "", clientId |-> "api-client", scopes |-> <<<<"api:access">>>>]],
     [kind |-> "return", class |-> "", message |-> <<>>,
      value |-> IF candidate = Null THEN [clientId |-> "anonymous"]
                ELSE [token |-> candidate.token, clientId |-> candidate.clientId]],
     [kind |-> "throw", class |-> "Error", value |-> Null,
      message |-> <<"Database connection failed">>],
     [kind |-> "throw", class |-> "AuthenticationError", value |-> Null,
      message |-> <<"Account suspended">>]}

NotCalled == [kind |-> "none", class |-> "", value |-> Null, message |-> <<>>]

Pending == [kind |-> "pending", class |-> "", message |-> <<>>, value |-> Null]

Returned(v) == [kind |-> "return", class |-> "", message |-> <<>>, value |-> v]

Thrown(class, message) ==
    [kind |-> "throw", class |-> class, message |-> message, value |-> Null]

\* handleRequestResult without the null check
handleRequestResult_nocheck(authInfo) == Returned(authInfo)

\* handleRequest after createAuthInfo: a null identity is an AuthenticationError
handleRequestResult(authInfo) ==
    IF authInfo = Null THEN Thrown("AuthenticationError", <<"Authentication failed">>)
    ELSE Returned(authInfo)

(***************************************************************************)
(* auth(): the router                                                      *)
(***************************************************************************)
NoResp == [status |-> 0, by |-> "", error |-> "", error_description |-> <<>>]

\* isAuthenticationError comparing the class by name, subclasses left out
isAuthenticationError_exact(o) == o.class = "AuthenticationError"

\* error instanceof AuthenticationError
isAuthenticationError(o) == o.class \in {"AuthenticationError", "JWTVerificationError"}

\* the catch block of tokenValidationMiddleware
errorResponse(o) ==
    IF isAuthenticationError(o)
    THEN [status |-> 401, by |-> "tokenValidationMiddleware",
          error |-> "authentication_error", error_description |-> o.message]
    ELSE [status |-> 500, by |-> "tokenValidationMiddleware",
          error |-> "internal_error", error_description |-> <<"An unexpected error occurred">>]

\* options.mcpRoute ?? DEFAULT_MCP_ROUTE
mcpRoute(opts) == IF opts.mcpRoute = Unset THEN DEFAULT_MCP_ROUTE ELSE opts.mcpRoute

\* options.enableLegacyOAuth ?? true
enableLegacyOAuth(opts) == opts.enableLegacyOAuth # "false"

\* LegacyOAuthRouter.getOAuthPaths()
getOAuthPaths ==
    {LEGACY_WELL_KNOWN, LEGACY_AUTHORIZE, LEGACY_TOKEN, LEGACY_REGISTER, LEGACY_CALLBACK}

\* router.use(path, handler): the mount path matches the path itself and
\* everything below it
mountMatches(mount, path) ==
    path = mount \/ StartsWith(path, mount \o <<"/">>)

\* LegacyOAuthRouter.createRouter(): the routes it registers
legacyRoute(method, path, oidc) ==
    CASE method = "GET" /\ path = LEGACY_WELL_KNOWN -> "wellKnown"
      [] method = "GET" /\ path = LEGACY_AUTHORIZE -> "handleAuthorize"
      [] method = "GET" /\ path = LEGACY_CALLBACK -> "handleCallback"
      [] method = "POST" /\ path = LEGACY_TOKEN -> "handleToken"
      [] method = "POST" /\ path = LEGACY_REGISTER /\ oidc.registration_endpoint
           -> "handleRegistration"
      [] OTHER -> "none"

\* protects without the early return for the legacy OAuth paths
protects_nolegacy(opts, path) ==
    /\ path # MetadataPath
    /\ StartsWith(path, mcpRoute(opts))

\* protects matching the route exactly instead of by prefix
protects_exact(opts, path) ==
    /\ path # MetadataPath
    /\ ~(enableLegacyOAuth(opts) /\ path \in getOAuthPaths)
    /\ path = mcpRoute(opts)

\* tokenValidationMiddleware's three early returns: does it call handleRequest?
protects(opts, path) ==
    /\ path # MetadataPath
    /\ ~(enableLegacyOAuth(opts) /\ path \in getOAuthPaths)
    /\ StartsWith(path, mcpRoute(opts))

(***************************************************************************)
(* Legacy OAuth proxy: values.  An optional string that is absent is "".  *)
(* A URL string is kept with what new URL() makes of it: whether it        *)
(* parses, its part before the query, and its query parameters in order.   *)
(***************************************************************************)
STATE_EXPIRATION_MS == 10 * 60 * 1000

MaxFlows == 2

KeySeq == <<"k1", "k2", "k3", "k4">>

Keys == {KeySeq[i] : i \in 1..Len(KeySeq)}

\* the clock readings: the start, the last instant a record made at the start
\* is kept, and the first at which it has expired
Times == {0, STATE_EXPIRATION_MS, STATE_EXPIRATION_MS + 1}

Url(base, query) == [valid |-> TRUE, base |-> base, query |-> query]

NoUrl == [valid |-> FALSE, base |-> "", query |-> <<>>]

BadUrl == [valid |-> FALSE, base |-> "not-a-url", query |-> <<>>]

R1 == Url("https://client.example/cb", <<>>)

R2 == Url("https://app.example/done", <<<<"tenant", "7">>>>)

authorization_endpoint == Url("https://auth.civic.com/authorize", <<>>)

\* URLSearchParams.set(name, value): the first parameter of that name takes
\* the value and the others of that name go; without one it is appended
searchParamsSet(query, name, value) ==
    IF \E i \in 1..Len(query) : query[i][1] = name
    THEN LET first == CHOOSE i \in 1..Len(query) :
                         query[i][1] = name /\ \A j \in 1..(i - 1) : query[j][1] # name
             keep == SelectSeq([i \in 1..Len(query) |-> <<i, query[i]>>],
                               LAMBDA e : e[2][1] # name \/ e[1] = first)
         IN  [i \in 1..Len(keep) |->
                 IF keep[i][1] = first THEN <<name, value>> ELSE keep[i][2]]
    ELSE Append(query, <<name, value>>)

\* URLSearchParams.get(name) || ""
searchParamsGet(query, name) ==
    IF \E i \in 1..Len(query) : query[i][1] = name
    THEN query[CHOOSE i \in 1..Len(query) :
                  query[i][1] = name /\ \A j \in 1..(i - 1) : query[j][1] # name][2]
    ELSE ""

NoBody == [error |-> "", error_description |-> "", error_uri |-> "", state |-> ""]

NoProxyResp == [status |-> 0, location |-> NoUrl, body |-> NoBody]

Redirect(url) == [status |-> 302, location |-> url, body |-> NoBody]

Json(status, body) == [status |-> status, location |-> NoUrl, body |-> body]

\* the catch block of each handler
ServerError == Json(500, [NoBody EXCEPT !.error = "server_error"])

\* a handler's result: the response it wrote, or an exception on its way to
\* the handler's catch block
Wrote(r) == [threw |-> FALSE, resp |-> r]

Threw == [threw |-> TRUE, resp |-> NoProxyResp]

\* sendErrorRedirect(res, redirectUri, error)
sendErrorRedirect(redirectUri, error) ==
    IF redirectUri.base = "" THEN Wrote(Json(400, error))
    ELSE IF ~redirectUri.valid THEN Threw
    ELSE LET q1 == searchParamsSet(redirectUri.query, "error", error.error)
             q2 == IF error.error_description # ""
                   THEN searchParamsSet(q1, "error_description", error.error_description)
                   ELSE q1
             q3 == IF error.error_uri # ""
                   THEN searchParamsSet(q2, "error_uri", error.error_uri)
                   ELSE q2
             q4 == IF error.state # "" THEN searchParamsSet(q3, "state", error.state) ELSE q3
         IN  Wrote(Redirect(Url(redirectUri.base, q4)))

\* getMcpCallbackUrl(req): `${protocol}://${host}/oauth/callback`
getMcpCallbackUrl(opts, protocol) ==
    IF opts.forceHttps \/ protocol = "https"
    THEN "https://mcp.example/oauth/callback"
    ELSE "http://mcp.example/oauth/callback"

(***************************************************************************)
(* InMemoryStateStore                                                      *)
(***************************************************************************)
NoState ==
    [found |-> FALSE, redirectUri |-> NoUrl, clientState |-> "", codeChallenge |-> "",
     codeChallengeMethod |-> "", createdAt |-> 0, scope |-> "", clientId |-> ""]

\* set(key, state)
storeSet(st, key, state) ==
    [k \in DOMAIN st \cup {key} |-> IF k = key THEN state ELSE st[k]]

\* delete(key)
storeDelete(st, key) == [k \in DOMAIN st \ {key} |-> st[k]]

\* the comparison taking a record of exactly the window's age for expired
expired_inclusive(state, t) == t - state.createdAt >= STATE_EXPIRATION_MS

\* Date.now() - state.createdAt > STATE_EXPIRATION_MS
expired(state, t) == t - state.createdAt > STATE_EXPIRATION_MS

\* storeGet leaving an expired record in the map
storeGet_keep(st, key, t) ==
    IF key \notin DOMAIN st \/ expired(st[key], t) THEN [value |-> NoState, store |-> st]
    ELSE [value |-> st[key], store |-> st]

\* storeGet taking the whole store for expired once one record of it is
storeGet_oldest(st, key, t) ==
    IF key \notin DOMAIN st THEN [value |-> NoState, store |-> st]
    ELSE IF \E j \in DOMAIN st : expired(st[j], t)
    THEN [value |-> NoState, store |-> storeDelete(st, key)]
    ELSE [value |-> st[key], store |-> st]

\* storeGet returning a record of the map whatever the key
storeGet_first(st, key, t) ==
    IF DOMAIN st = {} THEN [value |-> NoState, store |-> st]
    ELSE LET j == CHOOSE j \in DOMAIN st : \A i \in DOMAIN st : st[j].createdAt <= st[i].createdAt
         IN  IF expired(st[j], t) THEN [value |-> NoState, store |-> storeDelete(st, j)]
             ELSE [value |-> st[j], store |-> st]

\* get(key): the record, or null; an expired record is deleted on the way
storeGet(st, key, t) ==
    IF key \notin DOMAIN st THEN [value |-> NoState, store |-> st]
    ELSE IF expired(st[key], t) THEN [value |-> NoState, store |-> storeDelete(st, key)]
    ELSE [value |-> st[key], store |-> st]

\* cleanup sweeping by its own, inclusive, comparison
storeCleanup_inclusive(st, t) ==
    [k \in {j \in DOMAIN st : t - st[j].createdAt < STATE_EXPIRATION_MS} |-> st[k]]

\* cleanup()
storeCleanup(st, t) ==
    [k \in {j \in DOMAIN st : ~expired(st[j], t)} |-> st[k]]

(***************************************************************************)
(* InMemoryStateStore driven directly, as its tests drive it: set, get,    *)
(* delete and cleanup in any order, on a clock that a test may set to any  *)
(* reading.  hist keeps what the calls were: the record last set for a     *)
(* key, the keys deleted or seen expired since, and whether cleanup ran.   *)
(***************************************************************************)
StoreKeys == {"a", "b"}

StoreRecord(createdAt, clientState) ==
    [NoState EXCEPT !.found = TRUE, !.redirectUri = R1, !.clientId = "test-client",
                    !.clientState = clientState, !.createdAt = createdAt]

StoreRecords == {StoreRecord(t, s) : t \in {0, 1}, s \in {"client-123", "client-456"}}

NoGet ==
    [called |-> FALSE, key |-> "", value |-> NoState, at |-> 0, wasGone |-> FALSE,
     wasSet |-> NoState]

NoHist == [set |-> [k \in {} |-> NoState], gone |-> {}, lapsed |-> {}, cleaned |-> FALSE]

\* the record last set for k is older than the window at clock reading t
Lapsed(k, t) ==
    k \in DOMAIN hist.set /\ t - hist.set[k].createdAt > STATE_EXPIRATION_MS

stateStoreSet(k, state) ==
    /\ states' = storeSet(states, k, state)
    /\ hist' = [hist EXCEPT !.set = storeSet(hist.set, k, state),
                            !.gone = @ \ {k}, !.lapsed = @ \ {k}]
    /\ UNCHANGED <<options, oidcConfig, authVars, fwdVars, pureVars, clientVars, routerVars, lastGet, now, flow, authResp, cb,
                   consumed, redirected, authReq>>

stateStoreGet(k) ==
    /\ LET got == storeGet(states, k, now)
       IN  /\ states' = got.store
           /\ lastGet' = [called |-> TRUE, key |-> k, value |-> got.value, at |-> now,
                          wasGone |-> k \in hist.gone,
                          wasSet |-> IF k \in DOMAIN hist.set THEN hist.set[k] ELSE NoState]
    /\ hist' = IF Lapsed(k, now) /\ k \notin hist.gone
               THEN [hist EXCEPT !.gone = @ \cup {k}, !.lapsed = @ \cup {k}]
               ELSE hist
    /\ UNCHANGED <<options, oidcConfig, authVars, fwdVars, pureVars, clientVars, routerVars, now, flow, authResp, cb,
                   consumed, redirected, authReq>>

stateStoreDelete(k) ==
    /\ states' = storeDelete(states, k)
    /\ hist' = [hist EXCEPT !.gone = @ \cup {k}]
    /\ UNCHANGED <<options, oidcConfig, authVars, fwdVars, pureVars, clientVars, routerVars, lastGet, now, flow, authResp, cb,
                   consumed, redirected, authReq>>

stateStoreCleanup ==
    /\ states' = storeCleanup(states, now)
    /\ hist' = [hist EXCEPT !.gone = @ \cup {k \in DOMAIN hist.set : Lapsed(k, now)},
                            !.cleaned = TRUE]
    /\ UNCHANGED <<options, oidcConfig, authVars, fwdVars, pureVars, clientVars, routerVars, lastGet, now, flow, authResp, cb,
                   consumed, redirected, authReq>>

\* vi.setSystemTime / vi.advanceTimersByTime: the clock is put forward or back
setSystemTime(t) ==
    /\ t # now
    /\ now' = t
    /\ UNCHANGED <<options, oidcConfig, authVars, fwdVars, pureVars, clientVars, routerVars, storeVars, states, flow, authResp,
                   cb, consumed, redirected, authReq>>

(***************************************************************************)
(* OAuthProxyHandler.handleAuthorize                                       *)
(***************************************************************************)
\* the scope string handleRegistration writes
FIXED_SCOPE == "openid email profile"

\* generateState(): a value no request has carried and no flow was given
generateState == KeySeq[Cardinality(DOMAIN flow) + 1]

\* the redirect to the upstream authorization endpoint
upstreamAuthorizeUrl(opts, q, internalState) ==
    LET q1 == searchParamsSet(authorization_endpoint.query, "response_type", "code")
        q2 == searchParamsSet(q1, "client_id",
                              IF Falsy(opts.clientId) THEN q.client_id ELSE opts.clientId)
        q3 == searchParamsSet(q2, "redirect_uri", getMcpCallbackUrl(opts, q.protocol))
        q4 == searchParamsSet(q3, "state", internalState)
        q5 == IF q.scope # "" THEN searchParamsSet(q4, "scope", q.scope) ELSE q4
        q6 == IF q.code_challenge # ""
              THEN searchParamsSet(q5, "code_challenge", q.code_challenge)
              ELSE q5
        q7 == IF q.code_challenge # "" /\ q.code_challenge_method # ""
              THEN searchParamsSet(q6, "code_challenge_method", q.code_challenge_method)
              ELSE q6
    IN  Url(authorization_endpoint.base, q7)

\* the stored record without the caller's PKCE challenge
stateData_noChallenge(q, t) ==
    [found |-> TRUE, redirectUri |-> q.redirect_uri, clientState |-> q.state,
     codeChallenge |-> "", codeChallengeMethod |-> "",
     createdAt |-> t, scope |-> q.scope, clientId |-> q.client_id]

\* the OAuthState handleAuthorize stores
stateData(q, t) ==
    [found |-> TRUE, redirectUri |-> q.redirect_uri, clientState |-> q.state,
     codeChallenge |-> q.code_challenge, codeChallengeMethod |-> q.code_challenge_method,
     createdAt |-> t, scope |-> q.scope, clientId |-> q.client_id]

\* caught letting the exception go on: no response is written
caught_rethrow(result) == IF result.threw THEN NoProxyResp ELSE result.resp

\* the result of a handler, once its catch block has seen it
caught(result) == IF result.threw THEN ServerError ELSE result.resp

handleAuthorize(q) ==
    /\ UNCHANGED <<options, oidcConfig, authVars, storeVars, fwdVars, pureVars, clientVars, routerVars, now, cb, consumed, redirected>>
    /\ authReq' = q
    /\ IF ~q.hasUrl
       THEN /\ authResp' = ServerError
            /\ UNCHANGED <<states, flow>>
       ELSE IF q.response_type = "" \/ q.client_id = "" \/ q.redirect_uri.base = ""
       THEN /\ authResp' = caught(sendErrorRedirect(q.redirect_uri,
                              [NoBody EXCEPT !.error = "invalid_request",
                                             !.error_description = "Missing required parameters",
                                             !.state = q.state]))
            /\ UNCHANGED <<states, flow>>
       ELSE IF q.response_type # "code"
       THEN /\ authResp' = caught(sendErrorRedirect(q.redirect_uri,
                              [NoBody EXCEPT !.error = "unsupported_response_type",
                                             !.error_description =
                                                "Only 'code' response type is supported",
                                             !.state = q.state]))
            /\ UNCHANGED <<states, flow>>
       ELSE /\ Cardinality(DOMAIN flow) < MaxFlows
            /\ LET internalState == generateState
                   r == Redirect(upstreamAuthorizeUrl(options, q, internalState))
               IN  /\ states' = storeSet(states, internalState, stateData(q, now))
                   /\ flow' = [k \in DOMAIN flow \cup {internalState} |->
                                 IF k = internalState
                                 THEN [request |-> q, createdAt |-> now, resp |-> r]
                                 ELSE flow[k]]
                   /\ authResp' = r

(***************************************************************************)
(* OAuthProxyHandler.handleCallback, in the steps between its awaits.      *)
(* Each callback request keeps, beside the handler's locals, what was true *)
(* of its state key when the request arrived (known, spent, stale): these  *)
(* are read from the history of the flows, not from the store.             *)
(***************************************************************************)
Cbs == {"c1", "c2"}

OneCb == {"c1"}

NoQuery ==
    [hasUrl |-> FALSE, state |-> "", code |-> "", error |-> "", error_description |-> "",
     error_uri |-> ""]

IdleCb ==
    [pc |-> "idle", query |-> NoQuery, stateData |-> NoState, known |-> FALSE,
     spent |-> FALSE, stale |-> FALSE, resp |-> NoProxyResp]

InvalidState ==
    Json(400, [NoBody EXCEPT !.error = "invalid_request", !.error_description = "Invalid state"])

\* the part of handleCallback after the record is deleted
callbackResponse_keepState(q, sd) ==
    IF q.error # ""
    THEN caught(sendErrorRedirect(sd.redirectUri,
                    [NoBody EXCEPT !.error = q.error,
                                   !.error_description = q.error_description,
                                   !.error_uri = q.error_uri,
                                   !.state = sd.clientState]))
    ELSE IF q.code = ""
    THEN caught(sendErrorRedirect(sd.redirectUri,
                    [NoBody EXCEPT !.error = "invalid_request",
                                   !.error_description = "Missing authorization code",
                                   !.state = sd.clientState]))
    ELSE IF ~sd.redirectUri.valid THEN ServerError
    ELSE Redirect(Url(sd.redirectUri.base,
                      searchParamsSet(searchParamsSet(sd.redirectUri.query, "code", q.code),
                                      "state", q.state)))

callbackResponse(q, sd) ==
    IF q.error # ""
    THEN caught(sendErrorRedirect(sd.redirectUri,
                    [NoBody EXCEPT !.error = q.error,
                                   !.error_description = q.error_description,
                                   !.error_uri = q.error_uri,
                                   !.state = sd.clientState]))
    ELSE IF q.code = ""
    THEN caught(sendErrorRedirect(sd.redirectUri,
                    [NoBody EXCEPT !.error = "invalid_request",
                                   !.error_description = "Missing authorization code",
                                   !.state = sd.clientState]))
    ELSE IF ~sd.redirectUri.valid THEN ServerError
    ELSE LET q1 == searchParamsSet(sd.redirectUri.query, "code", q.code)
             q2 == IF sd.clientState # ""
                   THEN searchParamsSet(q1, "state", sd.clientState)
                   ELSE q1
         IN  Redirect(Url(sd.redirectUri.base, q2))

\* handleCallback looking the state up before it checks that there is one
handleCallback_lookupFirst(c, q) ==
    /\ cb[c].pc \in {"idle", "done"}
    /\ UNCHANGED <<options, oidcConfig, authVars, storeVars, fwdVars, pureVars, clientVars, routerVars, authReq, now, flow, authResp, consumed, redirected>>
    /\ LET arrived == [IdleCb EXCEPT !.query = q,
                                     !.known = q.state \in DOMAIN flow,
                                     !.spent = q.state \in consumed,
                                     !.stale = /\ q.state \in DOMAIN flow
                                               /\ now - flow[q.state].createdAt
                                                     > STATE_EXPIRATION_MS]
       IN  IF ~q.hasUrl
           THEN /\ cb' = [cb EXCEPT ![c] = [arrived EXCEPT !.pc = "done", !.resp = ServerError]]
                /\ UNCHANGED states
           ELSE LET got == storeGet(states, q.state, now)
                IN  /\ states' = got.store
                    /\ cb' = [cb EXCEPT ![c] =
                                [arrived EXCEPT !.pc = "get", !.stateData = got.value]]

\* a request arrives: up to the awaited stateStore.get(state)
handleCallback(c, q) ==
    /\ cb[c].pc \in {"idle", "done"}
    /\ UNCHANGED <<options, oidcConfig, authVars, storeVars, fwdVars, pureVars, clientVars, routerVars, authReq, now, flow, authResp, consumed, redirected>>
    /\ LET arrived == [IdleCb EXCEPT !.query = q,
                                     !.known = q.state \in DOMAIN flow,
                                     !.spent = q.state \in consumed,
                                     !.stale = /\ q.state \in DOMAIN flow
                                               /\ now - flow[q.state].createdAt
                                                     > STATE_EXPIRATION_MS]
       IN  IF ~q.hasUrl
           THEN /\ cb' = [cb EXCEPT ![c] = [arrived EXCEPT !.pc = "done", !.resp = ServerError]]
                /\ UNCHANGED states
           ELSE IF q.state = ""
           THEN /\ cb' = [cb EXCEPT ![c] =
                            [arrived EXCEPT !.pc = "done",
                                            !.resp = Json(400, [NoBody EXCEPT
                                                                  !.error = "invalid_request"])]]
                /\ UNCHANGED states
           ELSE LET got == storeGet(states, q.state, now)
                IN  /\ states' = got.store
                    /\ cb' = [cb EXCEPT ![c] =
                                [arrived EXCEPT !.pc = "get", !.stateData = got.value]]

\* stateStore.get has resolved: up to the awaited stateStore.delete(state)
getReturns_nodelete(c) ==
    /\ cb[c].pc = "get"
    /\ UNCHANGED <<options, oidcConfig, authVars, storeVars, fwdVars, pureVars, clientVars, routerVars, authReq, now, flow, authResp, redirected>>
    /\ IF ~cb[c].stateData.found
       THEN /\ cb' = [cb EXCEPT ![c].pc = "done", ![c].resp = InvalidState]
            /\ UNCHANGED <<states, consumed>>
       ELSE /\ cb' = [cb EXCEPT ![c].pc = "delete"]
            /\ UNCHANGED <<states, consumed>>

getReturns(c) ==
    /\ cb[c].pc = "get"
    /\ UNCHANGED <<options, oidcConfig, authVars, storeVars, fwdVars, pureVars, clientVars, routerVars, authReq, now, flow, authResp, redirected>>
    /\ IF ~cb[c].stateData.found
       THEN /\ cb' = [cb EXCEPT ![c].pc = "done", ![c].resp = InvalidState]
            /\ UNCHANGED <<states, consumed>>
       ELSE /\ states' = storeDelete(states, cb[c].query.state)
            /\ consumed' = consumed \cup {cb[c].query.state}
            /\ cb' = [cb EXCEPT ![c].pc = "delete"]

\* stateStore.delete has resolved: the rest of the handler
deleteReturns(c) ==
    /\ cb[c].pc = "delete"
    /\ UNCHANGED <<options, oidcConfig, authVars, storeVars, fwdVars, pureVars, clientVars, routerVars, authReq, now, flow, authResp, states, consumed>>
    /\ LET r == callbackResponse(cb[c].query, cb[c].stateData)
       IN  /\ cb' = [cb EXCEPT ![c].pc = "done", ![c].resp = r]
           /\ redirected' =
                 IF r.status = 302
                 THEN [redirected EXCEPT ![cb[c].query.state] = @ + 1]
                 ELSE redirected

\* time passes
tick ==
    /\ \E t \in Times : t > now /\ now' = t
    /\ UNCHANGED <<options, oidcConfig, authVars, storeVars, fwdVars, pureVars, clientVars, routerVars, authReq, states, flow, authResp, cb, consumed,
                   redirected>>

(***************************************************************************)
(* OAuthProxyHandler.handleToken and handleRegistration.  Each is taken in *)
(* two steps: from the request to the awaited fetch, and from what fetch   *)
(* settles with to the response.  A body is its fields in order; a field   *)
(* that a request does not have is "".                                     *)
(***************************************************************************)
NoFwdResp ==
    [status |-> 0, contentType |-> "", body |-> "", cacheControl |-> "", pragma |-> ""]

\* res.writeHead(status, {"Content-Type": "application/json"}); res.end(JSON.stringify({error}))
JsonError(status, error) ==
    [NoFwdResp EXCEPT !.status = status, !.contentType = "application/json", !.body = error]

\* what the awaited fetch and text() settle with: a response of the upstream
\* server, of any status, with or without a content-type header, or a
\* rejection
UpstreamOutcomes ==
    {[rejected |-> FALSE, status |-> 200, contentType |-> "application/json", body |-> "ok-body"],
     [rejected |-> FALSE, status |-> 400, contentType |-> "application/json",
      body |-> "invalid_grant"],
     [rejected |-> FALSE, status |-> 503, contentType |-> Undef, body |-> "unavailable"],
     [rejected |-> TRUE, status |-> 0, contentType |-> "", body |-> ""]}

NoTokenFields ==
    [grant_type |-> "", code |-> "", redirect_uri |-> "", client_id |-> "", client_secret |-> "",
     code_verifier |-> "", refresh_token |-> "", scope |-> ""]

\* a token request: how its body reaches the handler (parsed by Express, read
\* from the stream as a form, or a stream that fails), the protocol it came
\* by, its fields, and the flow whose code it redeems ("" when none)
TokenRequest(bodyKind, protocol, fields, of) ==
    [bodyKind |-> bodyKind, protocol |-> protocol, fields |-> fields, of |-> of]

NoTokenRequest == TokenRequest("", "", NoTokenFields, "")

\* fetch has not settled
NoUpstream == [rejected |-> FALSE, status |-> 0, contentType |-> "", body |-> ""]

IdleTok ==
    [pc |-> "idle", req |-> NoTokenRequest, sent |-> FALSE, body |-> <<>>,
     upstream |-> NoUpstream, resp |-> NoFwdResp]

\* ...(value && {name: value}): the field is there when the value is truthy
spread(name, test, value) == IF test = "" THEN <<>> ELSE <<<<name, value>>>>

\* relayToken answering 500 for an upstream status that is not a success
relayToken_convert(u) ==
    IF u.status >= 400 THEN JsonError(500, "server_error")
    ELSE [status |-> u.status,
          contentType |-> IF Falsy(u.contentType) THEN "" ELSE u.contentType,
          body |-> u.body, cacheControl |-> "no-store", pragma |-> "no-cache"]

\* tokenBody sending on the client_id it was given
tokenBody_callerId(opts, q) ==
    <<<<"grant_type", q.fields.grant_type>>>>
      \o spread("code", q.fields.code, q.fields.code)
      \o spread("redirect_uri", q.fields.redirect_uri, getMcpCallbackUrl(opts, q.protocol))
      \o spread("client_id", q.fields.client_id, q.fields.client_id)
      \o spread("client_secret", q.fields.client_secret, q.fields.client_secret)
      \o spread("code_verifier", q.fields.code_verifier, q.fields.code_verifier)
      \o spread("refresh_token", q.fields.refresh_token, q.fields.refresh_token)
      \o spread("scope", q.fields.scope, q.fields.scope)

\* the form body handleToken posts to the upstream token endpoint
tokenBody(opts, q) ==
    <<<<"grant_type", q.fields.grant_type>>>>
      \o spread("code", q.fields.code, q.fields.code)
      \o spread("redirect_uri", q.fields.redirect_uri, getMcpCallbackUrl(opts, q.protocol))
      \o spread("client_id", q.fields.client_id,
                IF Falsy(opts.clientId) THEN q.fields.client_id ELSE opts.clientId)
      \o spread("client_secret", q.fields.client_secret, q.fields.client_secret)
      \o spread("code_verifier", q.fields.code_verifier, q.fields.code_verifier)
      \o spread("refresh_token", q.fields.refresh_token, q.fields.refresh_token)
      \o spread("scope", q.fields.scope, q.fields.scope)

\* a response of the upstream server, as handleToken relays it
relayToken(u) ==
    [status |-> u.status,
     contentType |-> IF Falsy(u.contentType) THEN "" ELSE u.contentType,
     body |-> u.body, cacheControl |-> "no-store", pragma |-> "no-cache"]

\* handleToken without the grant_type check
handleToken_nocheck(q) ==
    /\ tok.pc \in {"idle", "done"}
    /\ UNCHANGED <<options, oidcConfig, authVars, proxyVars, storeVars, pureVars, clientVars, routerVars, reg>>
    /\ IF q.bodyKind = "error"
       THEN tok' = [IdleTok EXCEPT !.pc = "done", !.req = q,
                                   !.resp = JsonError(500, "server_error")]
       ELSE tok' = [IdleTok EXCEPT !.pc = "fetch", !.req = q, !.sent = TRUE,
                                   !.body = tokenBody(options, q)]

\* a token request arrives: up to the awaited fetch
handleToken(q) ==
    /\ tok.pc \in {"idle", "done"}
    /\ UNCHANGED <<options, oidcConfig, authVars, proxyVars, storeVars, pureVars, clientVars, routerVars, reg>>
    /\ IF q.bodyKind = "error"
       THEN tok' = [IdleTok EXCEPT !.pc = "done", !.req = q,
                                   !.resp = JsonError(500, "server_error")]
       ELSE IF q.fields.grant_type = ""
       THEN tok' = [IdleTok EXCEPT !.pc = "done", !.req = q,
                                   !.resp = JsonError(400, "invalid_request")]
       ELSE tok' = [IdleTok EXCEPT !.pc = "fetch", !.req = q, !.sent = TRUE,
                                   !.body = tokenBody(options, q)]

\* fetch and text() have settled: the response is relayed, a rejection caught
tokenFetchReturns(u) ==
    /\ tok.pc = "fetch"
    /\ UNCHANGED <<options, oidcConfig, authVars, proxyVars, storeVars, pureVars, clientVars, routerVars, reg>>
    /\ tok' = [tok EXCEPT !.pc = "done", !.upstream = u,
                          !.resp = IF u.rejected THEN JsonError(500, "server_error")
                                   ELSE relayToken(u)]

\* a registration request: how its body reaches the handler (an object parsed
\* by Express, a JSON text or a form read from the stream, a JSON text that
\* does not parse, or a stream that fails) and the body's fields in order.
\* The members of an object have distinct names; a form may repeat a name.
RegistrationRequest(bodyKind, fields) == [bodyKind |-> bodyKind, fields |-> fields]

NoRegistrationRequest == RegistrationRequest("", <<>>)

IdleReg ==
    [pc |-> "idle", req |-> NoRegistrationRequest, sent |-> FALSE, body |-> <<>>,
     upstream |-> NoUpstream, resp |-> NoFwdResp]

\* obj[name] = value: a member the object has keeps its place
assign(obj, name, value) ==
    IF \E i \in 1..Len(obj) : obj[i][1] = name
    THEN [i \in 1..Len(obj) |-> IF obj[i][1] = name THEN <<name, value>> ELSE obj[i]]
    ELSE Append(obj, <<name, value>>)

RECURSIVE fromEntries(_)
\* Object.fromEntries(entries): each entry is assigned in turn
fromEntries(entries) ==
    IF entries = <<>> THEN <<>>
    ELSE LET n == Len(entries)
         IN  assign(fromEntries(SubSeq(entries, 1, n - 1)), entries[n][1], entries[n][2])

\* the object handleRegistration reads from the request
bodyObj(q) == IF q.bodyKind = "form" THEN fromEntries(q.fields) ELSE q.fields

\* registrationBody leaving a scope the client sent as it is
registrationBody_keepScope(q) ==
    IF \E i \in 1..Len(bodyObj(q)) : bodyObj(q)[i][1] = "scope"
    THEN bodyObj(q)
    ELSE assign(bodyObj(q), "scope", FIXED_SCOPE)

\* the JSON body handleRegistration posts to the upstream registration endpoint
registrationBody(q) == assign(bodyObj(q), "scope", FIXED_SCOPE)

\* a response of the upstream server, as handleRegistration relays it
relayRegistration(u) ==
    [NoFwdResp EXCEPT !.status = u.status,
                      !.contentType = IF Falsy(u.contentType) THEN "" ELSE u.contentType,
                      !.body = u.body]

\* handleRegistration without the look at the upstream registration endpoint
handleRegistration_nocheck(q) ==
    /\ reg.pc \in {"idle", "done"}
    /\ UNCHANGED <<options, oidcConfig, authVars, proxyVars, storeVars, pureVars, clientVars, routerVars, tok>>
    /\ IF q.bodyKind \in {"error", "badjson"}
       THEN reg' = [IdleReg EXCEPT !.pc = "done", !.req = q,
                                   !.resp = JsonError(500, "server_error")]
       ELSE reg' = [IdleReg EXCEPT !.pc = "fetch", !.req = q, !.sent = TRUE,
                                   !.body = registrationBody(q)]

\* a registration request arrives: up to the awaited fetch
handleRegistration(q) ==
    /\ reg.pc \in {"idle", "done"}
    /\ UNCHANGED <<options, oidcConfig, authVars, proxyVars, storeVars, pureVars, clientVars, routerVars, tok>>
    /\ IF ~oidcConfig.registration_endpoint
       THEN reg' = [IdleReg EXCEPT !.pc = "done", !.req = q,
                                   !.resp = JsonError(404, "Registration not supported")]
       ELSE IF q.bodyKind \in {"error", "badjson"}
       THEN reg' = [IdleReg EXCEPT !.pc = "done", !.req = q,
                                   !.resp = JsonError(500, "server_error")]
       ELSE reg' = [IdleReg EXCEPT !.pc = "fetch", !.req = q, !.sent = TRUE,
                                   !.body = registrationBody(q)]

\* fetch and text() have settled: the response is relayed, a rejection caught
registrationFetchReturns(u) ==
    /\ reg.pc = "fetch"
    /\ UNCHANGED <<options, oidcConfig, authVars, proxyVars, storeVars, pureVars, clientVars, routerVars, tok>>
    /\ reg' = [reg EXCEPT !.pc = "done", !.upstream = u,
                          !.resp = IF u.rejected THEN JsonError(500, "server_error")
                                   ELSE relayRegistration(u)]

(***************************************************************************)
(* Configurations and the initial state                                    *)
(***************************************************************************)
Options ==
    [clientId : {Undef, EXPECTED_CLIENT_ID},
     wellKnownUrl : {Undef, DEFAULT_WELLKNOWN_URL, CUSTOM_WELLKNOWN_URL},
     onLogin : BOOLEAN,
     mcpRoute : McpRoutes,
     enableLegacyOAuth : {Undef, "false"},
     forceHttps : BOOLEAN]

OidcConfigs == [registration_endpoint : BOOLEAN]

NoReq == [method |-> "", path |-> <<>>, header |-> <<>>]

InitAuth ==
    /\ pc = [r \in Reqs |-> "idle"]
    /\ req = [r \in Reqs |-> NoReq]
    /\ log = [r \in Reqs |-> <<>>]
    /\ loginArgs = [r \in Reqs |-> <<>>]
    /\ loginRet = [r \in Reqs |-> NotCalled]
    /\ outcome = [r \in Reqs |-> Pending]
    /\ resp = [r \in Reqs |-> NoResp]
    /\ downstream = [r \in Reqs |-> FALSE]
    /\ reqAuth = [r \in Reqs |-> Null]

\* the authorize requests: the complete ones, with and without the optional
\* parameters and with a redirect_uri that new URL() rejects, and the ones
\* handleAuthorize turns away
AuthorizeRequest(protocol, rt, cid, uri, state, scope, cc, ccm) ==
    [hasUrl |-> TRUE, protocol |-> protocol, response_type |-> rt, client_id |-> cid,
     redirect_uri |-> uri, state |-> state, scope |-> scope, code_challenge |-> cc,
     code_challenge_method |-> ccm]

StoredRequests ==
    {AuthorizeRequest("http", "code", "X", R1, "S1", "", "", ""),
     AuthorizeRequest("https", "code", "Y", R2, "", "openid", "ch4", "S256"),
     AuthorizeRequest("http", "code", "X", BadUrl, "S2", "", "", "")}

RejectedRequests ==
    {AuthorizeRequest("http", "", "X", R1, "S1", "", "", ""),
     AuthorizeRequest("http", "token", "X", R2, "S2", "", "", ""),
     AuthorizeRequest("http", "code", "X", NoUrl, "S1", "", "", ""),
     AuthorizeRequest("http", "code", "", BadUrl, "S1", "", "", ""),
     AuthorizeRequest("https", "id_token", "Y", BadUrl, "", "", "", ""),
     [AuthorizeRequest("http", "", "", NoUrl, "", "", "", "") EXCEPT !.hasUrl = FALSE]}

CallbackRequest(state, code, error, error_description, error_uri) ==
    [hasUrl |-> TRUE, state |-> state, code |-> code, error |-> error,
     error_description |-> error_description, error_uri |-> error_uri]

\* the callback requests: for a key that may be in the store, with a code,
\* with an upstream error (bare, or with its description and URI) and with
\* neither; for a state no flow was given; without a state; without a URL
CallbackRequests(keys) ==
    {CallbackRequest(k, v[1], v[2], v[3], v[4]) :
        k \in keys,
        v \in {<<"C1", "", "", "">>,
               <<"", "access_denied", "User denied", "https://auth.civic.com/err">>,
               <<"", "server_error", "", "">>,
               <<"", "", "", "">>}}
      \cup {CallbackRequest("bogus", "C1", "", "", ""), CallbackRequest("", "C1", "", "", ""),
            NoQuery}

\* Token requests: a code redeemed for a flow of keys, by either protocol,
\* with everything a client may send or with the code alone; a refresh;
\* bodies without grant_type (an empty object, an empty form, a form with
\* other fields); a stream that fails
TokenRequests(keys) ==
    {TokenRequest("express", p,
                  [NoTokenFields EXCEPT !.grant_type = "authorization_code", !.code = "C1",
                                        !.redirect_uri = "https://client.example/cb",
                                        !.client_id = "X", !.code_verifier = "v3r1f13r"],
                  k) : p \in {"http", "https"}, k \in keys}
      \cup {TokenRequest("form", "http",
                         [NoTokenFields EXCEPT !.grant_type = "authorization_code",
                                               !.code = "C1"],
                         k) : k \in keys}
      \cup {TokenRequest("form", "http",
                         [NoTokenFields EXCEPT !.grant_type = "refresh_token",
                                               !.refresh_token = "r3fr3sh", !.client_id = "Y",
                                               !.client_secret = "s3cr3t", !.scope = "openid"],
                         ""),
            TokenRequest("express", "https", NoTokenFields, ""),
            TokenRequest("form", "http", NoTokenFields, ""),
            TokenRequest("form", "http",
                         [NoTokenFields EXCEPT !.code = "C1", !.client_id = "X"], ""),
            TokenRequest("error", "http", NoTokenFields, "")}

\* Registration requests: objects with and without a scope, by Express and as
\* JSON text; forms with and without a scope, one naming redirect_uris twice
\* and one naming scope twice; a JSON text that does not parse; a stream that
\* fails
RegistrationRequests ==
    {RegistrationRequest(kind, fields) :
        kind \in {"express", "json", "form"},
        fields \in {<<<<"client_name", "Test Client">>, <<"scope", "custom scope">>,
                      <<"redirect_uris", "https://client.example/cb">>>>,
                    <<<<"client_name", "Test Client">>,
                      <<"redirect_uris", "https://client.example/cb">>>>,
                    <<<<"scope", "">>, <<"token_endpoint_auth_method", "none">>>>,
                    <<>>}}
      \cup {RegistrationRequest("form",
                                <<<<"redirect_uris", "https://client.example/cb">>,
                                  <<"client_name", "Test Client">>,
                                  <<"redirect_uris", "https://other.example/cb">>>>),
            RegistrationRequest("form",
                                <<<<"scope", "custom scope">>, <<"client_name", "Test Client">>,
                                  <<"scope", "offline_access">>>>),
            RegistrationRequest("badjson", <<>>),
            RegistrationRequest("error", <<>>)}

InitProxy ==
    /\ states = [k \in {} |-> NoState]
    /\ now = 0
    /\ flow = [k \in {} |-> NoState]
    /\ authResp = NoProxyResp
    /\ cb = [c \in Cbs |-> IdleCb]
    /\ consumed = {}
    /\ redirected = [k \in Keys |-> 0]
    /\ authReq = [AuthorizeRequest("http", "", "", NoUrl, "", "", "", "") EXCEPT !.hasUrl = FALSE]

InitStore ==
    /\ lastGet = NoGet
    /\ hist = NoHist

InitFwd ==
    /\ tok = IdleTok
    /\ reg = IdleReg

\* createAuthInfo has not been applied
NoCandidate == [token |-> "", payload |-> NoPayload, built |-> FALSE, value |-> Null]

InitPure == inputInfo = NoCandidate

(***************************************************************************)
(* The command-line client: CLIAuthProvider with its callback server, and  *)
(* CLIClient.connect on top of it.  prov is the provider: its              *)
(* authorizationCodePromise, the transport registered with it, whether its *)
(* callback server listens, and the finishAuth calls it awaits.  Beside    *)
(* those it keeps what happened: the codes that arrived on /callback, the  *)
(* codes finishAuth succeeded for, and the last thing that happened to the *)
(* provider: its kind, whether the promise was pending then, and the error *)
(* parameter, the code or the failure it came with.                        *)
(***************************************************************************)
Codes == {"C1", "C2"}

PendingCode == [state |-> "pending", value |-> <<>>]

NoPromise == [state |-> "none", value |-> <<>>]

\* what authorizationCodeResolve and authorizationCodeReject do: a promise
\* settles once, a later call leaves it as it is
resolveCode(promise, code) ==
    IF promise.state = "pending" THEN [state |-> "resolved", value |-> <<code>>] ELSE promise

rejectCode(promise, message) ==
    IF promise.state = "pending" THEN [state |-> "rejected", value |-> message] ELSE promise

NoEvent == [kind |-> "none", pending |-> FALSE, value |-> <<>>]

Event(kind, p, value) == [kind |-> kind, pending |-> p.promise.state = "pending", value |-> value]

InitProv ==
    prov = [promise |-> NoPromise, transport |-> FALSE, server |-> FALSE, orphan |-> FALSE,
            finishAuth |-> {}, arrived |-> {}, finished |-> {}, last |-> NoEvent]

\* requests to the callback server: no URL, /callback with an error, with a
\* code, with both, with an empty error beside a code, with neither, and
\* another path
ServerRequests ==
    {[url |-> FALSE, pathname |-> <<>>, code |-> Undef, error |-> Undef]}
    \cup {[url |-> TRUE, pathname |-> <<"/", "callback">>, code |-> c, error |-> e] :
             c \in Codes \cup {Undef}, e \in {Undef, "access_denied"}}
    \cup {[url |-> TRUE, pathname |-> <<"/", "callback">>, code |-> "C1", error |-> ""],
          [url |-> TRUE, pathname |-> <<"/", "other">>, code |-> "C1", error |-> Undef]}

stopCallbackServer(p) == [p EXCEPT !.server = FALSE]

\* the request handler resolving as soon as the code arrives
requestListener_early(p, q) ==
    IF ~q.url \/ q.pathname # <<"/", "callback">> THEN p
    ELSE IF ~Falsy(q.error)
    THEN stopCallbackServer([p EXCEPT !.promise = rejectCode(@, <<"OAuth error: ", q.error>>)])
    ELSE IF ~Falsy(q.code)
    THEN [p EXCEPT !.promise = resolveCode(@, q.code), !.arrived = @ \cup {q.code}]
    ELSE p

\* the request handler of the callback server, up to the call of finishAuth
requestListener(p, q) ==
    IF ~q.url THEN [p EXCEPT !.last = Event("400", p, <<>>)]
    ELSE IF q.pathname = <<"/", "callback">>
    THEN IF ~Falsy(q.error)
         THEN stopCallbackServer(
                 [p EXCEPT !.promise = rejectCode(@, <<"OAuth error: ", q.error>>),
                           !.last = Event("error", p, <<q.error>>)])
         ELSE IF ~Falsy(q.code)
         THEN IF p.transport
              THEN [p EXCEPT !.finishAuth = @ \cup {q.code},
                             !.arrived = @ \cup {q.code},
                             !.last = Event("finishAuth", p, <<q.code>>)]
              ELSE [p EXCEPT !.promise = rejectCode(@, <<"No transport registered">>),
                             !.arrived = @ \cup {q.code},
                             !.last = Event("noTransport", p, <<q.code>>)]
         ELSE [p EXCEPT !.last = Event("400", p, <<>>)]
    ELSE [p EXCEPT !.last = Event("404", p, <<>>)]

\* what transport.finishAuth settles with
FinishAuthOutcomes == {[ok |-> TRUE, message |-> <<>>], [ok |-> FALSE, message |-> <<"Token exchange failed">>]}

\* the then/then/catch chain on finishAuth(code)
finishAuthSettles(p, code, o) ==
    IF o.ok
    THEN [stopCallbackServer(p) EXCEPT !.promise = resolveCode(@, code),
                                       !.finishAuth = @ \ {code},
                                       !.finished = @ \cup {code},
                                       !.last = Event("finished", p, <<code>>)]
    ELSE [p EXCEPT !.promise = rejectCode(@, o.message),
                   !.finishAuth = @ \ {code},
                   !.last = Event("failed", p, o.message)]

\* startCallbackServer: a new promise replaces the one before, then the new
\* server listens or fails to; a server that was listening is left
\* listening, out of the provider's reach
startCallbackServer(p, listens) ==
    [p EXCEPT !.promise = PendingCode,
              !.orphan = p.orphan \/ p.server,
              !.server = listens,
              !.last = Event("start", p, <<>>)]

(***************************************************************************)
(* CLIClient.connect, in the steps between its awaits.  cli keeps where    *)
(* the call is, how many times it called super.connect, what the first     *)
(* attempt threw and the second settled with, what tokens() returned, the  *)
(* promise it awaits, and how the call ended.                              *)
(***************************************************************************)
NoError == [kind |-> "none", isError |-> FALSE, message |-> <<>>]

Ok == [kind |-> "ok", isError |-> FALSE, message |-> <<>>]

Throw(isError, message) == [kind |-> "throw", isError |-> isError, message |-> message]

\* what super.connect settles with: success, the SDK's UnauthorizedError,
\* another Error, and a thrown value that is not an Error
ConnectOutcomes ==
    {Ok, Throw(TRUE, <<"Unauthorized">>), Throw(TRUE, <<"Connection refused">>),
     Throw(FALSE, <<"Unauthorized">>)}

\* what authProvider.tokens() returns: nothing, stored tokens, or the
\* promise of an asynchronous persistence
TokensResults == {Undef, "tokens", "promise"}

Live == [state |-> "live", value |-> <<>>]

InitCli ==
    cli = [pc |-> "idle", attempts |-> 0, first |-> NoError, second |-> NoError,
           tokens |-> "unasked",
           promise |-> NoPromise, waited |-> FALSE, result |-> NoError]

InitClient == InitProv /\ InitCli

\* the promise a waiting connect awaits, as it is now
Awaited == IF cli.promise.state = "live" THEN prov.promise ELSE cli.promise

ends(c, o) == [c EXCEPT !.pc = "done", !.result = o]

\* waitForAuthorizationCode, called by connect
waitForAuthorizationCode(c, p) ==
    IF p.promise.state = "none"
    THEN ends(c, Throw(TRUE, <<"Authorization flow not started">>))
    ELSE [c EXCEPT !.pc = "waiting", !.promise = Live]

\* the catch block retrying whatever tokens() returned
caught1_ignoreTokens(c, error, tokens, p) ==
    IF error.isError /\ error.message = <<"Unauthorized">>
    THEN waitForAuthorizationCode([c EXCEPT !.first = error, !.tokens = tokens], p)
    ELSE ends([c EXCEPT !.first = error], error)

\* the catch block of connect, up to its await
caught1(c, error, tokens, p) ==
    IF error.isError /\ error.message = <<"Unauthorized">>
    THEN IF tokens = Undef
         THEN waitForAuthorizationCode([c EXCEPT !.first = error, !.tokens = tokens], p)
         ELSE ends([c EXCEPT !.first = error, !.tokens = tokens], error)
    ELSE ends([c EXCEPT !.first = error], error)

connect ==
    /\ cli.pc = "idle"
    /\ cli' = [cli EXCEPT !.pc = "connect1", !.attempts = 1]
    /\ UNCHANGED <<options, oidcConfig, authVars, proxyVars, storeVars, fwdVars, pureVars, routerVars, prov>>

connect1Settles(o, tokens) ==
    /\ cli.pc = "connect1"
    /\ cli' = IF o.kind = "ok" THEN ends(cli, Ok) ELSE caught1(cli, o, tokens, prov)
    /\ UNCHANGED <<options, oidcConfig, authVars, proxyVars, storeVars, fwdVars, pureVars, routerVars, prov>>

\* the awaited promise settles: connect goes on to its second attempt, or
\* ends with the rejection
waitSettles ==
    /\ cli.pc = "waiting"
    /\ Awaited.state \in {"resolved", "rejected"}
    /\ cli' = IF Awaited.state = "resolved"
              THEN [cli EXCEPT !.pc = "connect2", !.attempts = @ + 1, !.waited = TRUE,
                               !.promise = Awaited]
              ELSE ends([cli EXCEPT !.promise = Awaited], Throw(TRUE, Awaited.value))
    /\ UNCHANGED <<options, oidcConfig, authVars, proxyVars, storeVars, fwdVars, pureVars, routerVars, prov>>

connect2Settles(o) ==
    /\ cli.pc = "connect2"
    /\ cli' = ends([cli EXCEPT !.second = o], o)
    /\ UNCHANGED <<options, oidcConfig, authVars, proxyVars, storeVars, fwdVars, pureVars, routerVars, prov>>

registerTransport ==
    /\ ~prov.transport
    /\ prov' = [prov EXCEPT !.transport = TRUE]
    /\ UNCHANGED <<options, oidcConfig, authVars, proxyVars, storeVars, fwdVars, pureVars, routerVars, cli>>

\* a connect that awaits the promise being replaced keeps the old one
redirectToAuthorization(listens) ==
    /\ prov' = startCallbackServer(prov, listens)
    /\ cli' = IF cli.pc = "waiting" THEN [cli EXCEPT !.promise = Awaited] ELSE cli
    /\ UNCHANGED <<options, oidcConfig, authVars, proxyVars, storeVars, fwdVars, pureVars, routerVars>>

callbackRequest(q) ==
    /\ prov.server \/ prov.orphan
    /\ prov' = requestListener(prov, q)
    /\ UNCHANGED <<options, oidcConfig, authVars, proxyVars, storeVars, fwdVars, pureVars, routerVars, cli>>

finishAuthReturns(code, o) ==
    /\ code \in prov.finishAuth
    /\ prov' = finishAuthSettles(prov, code, o)
    /\ UNCHANGED <<options, oidcConfig, authVars, proxyVars, storeVars, fwdVars, pureVars, routerVars, cli>>

\* the time a caller allows for the flow passes with no request to the
\* callback server; the provider sets no timer, so nothing else changes
authTimeoutElapses ==
    /\ prov.server /\ prov.last.kind = "start"
    /\ prov' = [prov EXCEPT !.last = Event("timeout", prov, <<>>)]
    /\ UNCHANGED <<options, oidcConfig, authVars, proxyVars, storeVars, fwdVars, pureVars, routerVars, cli>>

NextClient ==
    \/ connect
    \/ \E o \in ConnectOutcomes, t \in TokensResults : connect1Settles(o, t)
    \/ waitSettles
    \/ \E o \in ConnectOutcomes : connect2Settles(o)
    \/ registerTransport
    \/ \E listens \in BOOLEAN : redirectToAuthorization(listens)
    \/ \E q \in ServerRequests : callbackRequest(q)
    \/ \E code \in Codes, o \in FinishAuthOutcomes : finishAuthReturns(code, o)
    \/ authTimeoutElapses

(***************************************************************************)
(* LegacyOAuthRouter on its own.  router keeps the scopes it was           *)
(* constructed with (options.scopesSupported and the upstream              *)
(* scopes_supported), the routes createRouter registered, and the last     *)
(* request with what the router answered it.                               *)
(***************************************************************************)
NoDocument ==
    [issuer |-> <<>>, authorization_endpoint |-> <<>>, token_endpoint |-> <<>>,
     registration_endpoint |-> Unset, scopes_supported |-> <<>>,
     response_types_supported |-> <<>>, grant_types_supported |-> <<>>,
     token_endpoint_auth_methods_supported |-> <<>>,
     code_challenge_methods_supported |-> <<>>]

NoServed ==
    [called |-> FALSE, method |-> "", path |-> <<>>, protocol |-> "", host |-> "",
     route |-> "none", document |-> NoDocument]

NoRouter ==
    [scopesSupported |-> Unset, scopes_supported |-> Unset, created |-> FALSE,
     routes |-> {}, served |-> NoServed]

InitRouter == router = NoRouter

\* the document advertising a registration endpoint whatever the upstream has
legacyMetadata_always(r, oidc, protocol, host) ==
    [NoDocument EXCEPT !.issuer = <<protocol, "://", host>>,
                       !.registration_endpoint = <<protocol, "://", host>> \o LEGACY_REGISTER]

\* the handler of GET /.well-known/oauth-authorization-server: the document
\* that res.json writes (a field that is undefined is left out of it)
legacyMetadata(r, oidc, protocol, host) ==
    LET baseUrl == <<protocol, "://", host>>
    IN  [issuer |-> baseUrl,
         authorization_endpoint |-> baseUrl \o LEGACY_AUTHORIZE,
         token_endpoint |-> baseUrl \o LEGACY_TOKEN,
         registration_endpoint |->
            IF oidc.registration_endpoint THEN baseUrl \o LEGACY_REGISTER ELSE Unset,
         scopes_supported |->
            IF r.scopesSupported # Unset THEN r.scopesSupported
            ELSE IF r.scopes_supported # Unset THEN r.scopes_supported
            ELSE <<>>,
         response_types_supported |-> <<"code">>,
         grant_types_supported |-> <<"authorization_code", "refresh_token">>,
         token_endpoint_auth_methods_supported |->
            <<"client_secret_post", "client_secret_basic", "none">>,
         code_challenge_methods_supported |-> <<"S256", "plain">>]

\* createRouter(): the routes are registered once
createRouter ==
    /\ ~router.created
    /\ router' = [router EXCEPT
                     !.created = TRUE,
                     !.routes = {x \in Methods \X Paths :
                                    legacyRoute(x[1], x[2], oidcConfig) # "none"}]
    /\ UNCHANGED <<options, oidcConfig, authVars, proxyVars, storeVars, fwdVars, pureVars, clientVars>>

\* a request to the router: the route that takes it, if one does, and for
\* the discovery route the document
routerRequest(method, path, protocol, host) ==
    /\ router.created
    /\ LET route == IF <<method, path>> \in router.routes
                    THEN legacyRoute(method, path, oidcConfig)
                    ELSE "none"
       IN  router' = [router EXCEPT !.served =
                        [called |-> TRUE, method |-> method, path |-> path,
                         protocol |-> protocol, host |-> host, route |-> route,
                         document |-> IF route = "wellKnown"
                                      THEN legacyMetadata(router, oidcConfig, protocol, host)
                                      ELSE NoDocument]]
    /\ UNCHANGED <<options, oidcConfig, authVars, proxyVars, storeVars, fwdVars, pureVars, clientVars>>

\* The legacy proxy: with and without a configured client id and forceHttps
InitLegacy ==
    /\ options \in {o \in Options : /\ o.wellKnownUrl = Undef
                                    /\ ~o.onLogin
                                    /\ o.mcpRoute = Unset
                                    /\ o.enableLegacyOAuth = Undef}
    /\ oidcConfig = [registration_endpoint |-> TRUE]
    /\ InitAuth
    /\ InitProxy
    /\ InitStore
    /\ InitFwd
    /\ InitPure
    /\ InitClient
    /\ InitRouter

\* The middleware and the authenticator: every configuration of them
Init ==
    /\ options \in {o \in Options : ~o.forceHttps}
    /\ oidcConfig \in OidcConfigs
    /\ InitAuth
    /\ InitProxy
    /\ InitStore
    /\ InitFwd
    /\ InitPure
    /\ InitClient
    /\ InitRouter

(***************************************************************************)
(* handleRequest, in the steps between its suspension points               *)
(***************************************************************************)
\* handleRequest has settled with o: the rest of tokenValidationMiddleware
settle(r, o) ==
    /\ pc' = [pc EXCEPT ![r] = "done"]
    /\ outcome' = [outcome EXCEPT ![r] = o]
    /\ IF o.kind = "return"
       THEN /\ reqAuth' = [reqAuth EXCEPT ![r] = o.value]
            /\ downstream' = [downstream EXCEPT ![r] = TRUE]
            /\ resp' = resp
       ELSE /\ resp' = [resp EXCEPT ![r] = errorResponse(o)]
            /\ UNCHANGED <<reqAuth, downstream>>

\* createAuthInfo(token, payload, request), candidate being its inputAuthInfo
\* and lg the calls made so far: without onLogin the candidate is the result,
\* with it onLogin is called
createAuthInfo(r, candidate, lg) ==
    IF ~options.onLogin
    THEN /\ settle(r, handleRequestResult(candidate))
         /\ log' = [log EXCEPT ![r] = lg]
         /\ UNCHANGED <<loginArgs, loginRet>>
    ELSE /\ pc' = [pc EXCEPT ![r] = "onLogin"]
         /\ loginArgs' = [loginArgs EXCEPT ![r] = Append(@, candidate)]
         /\ log' = [log EXCEPT ![r] = Append(lg, "onLogin")]
         /\ UNCHANGED <<loginRet, outcome, resp, downstream, reqAuth>>

\* handleRequest up to its first suspension point: extractBearerToken reads
\* the header and either has no token or calls jwtVerify
handleRequest(r, authHeader) ==
    IF ~hasBearer(authHeader)
    THEN createAuthInfo(r, Null, log[r])
    ELSE /\ pc' = [pc EXCEPT ![r] = "jwtVerify"]
         /\ log' = [log EXCEPT ![r] = Append(@, "jwtVerify")]
         /\ UNCHANGED <<loginArgs, loginRet, outcome, resp, downstream, reqAuth>>

\* A request enters the router returned by auth()
tokenValidationMiddleware(r, method, path, authHeader) ==
    /\ pc[r] = "idle"
    /\ req' = [req EXCEPT ![r] = [method |-> method, path |-> path, header |-> authHeader]]
    /\ UNCHANGED <<options, oidcConfig, proxyVars, storeVars, fwdVars, pureVars, clientVars, routerVars>>
    /\ IF mountMatches(MetadataPath, path)
       THEN /\ resp' = [resp EXCEPT ![r] = [NoResp EXCEPT !.status = 200,
                                                        !.by = "getProtectedResourceMetadata"]]
            /\ pc' = [pc EXCEPT ![r] = "done"]
            /\ UNCHANGED <<log, loginArgs, loginRet, outcome, downstream, reqAuth>>
       ELSE IF enableLegacyOAuth(options) /\ legacyRoute(method, path, oidcConfig) # "none"
       THEN /\ resp' = [resp EXCEPT ![r] = [NoResp EXCEPT !.status = 200,
                                                        !.by = legacyRoute(method, path, oidcConfig)]]
            /\ pc' = [pc EXCEPT ![r] = "done"]
            /\ UNCHANGED <<log, loginArgs, loginRet, outcome, downstream, reqAuth>>
       ELSE IF ~protects(options, path)
       THEN /\ downstream' = [downstream EXCEPT ![r] = TRUE]
            /\ pc' = [pc EXCEPT ![r] = "done"]
            /\ UNCHANGED <<log, loginArgs, loginRet, outcome, resp, reqAuth>>
       ELSE handleRequest(r, authHeader)

\* jwtVerifyReturns treating a failed verification as "no token"
jwtVerifyReturns_swallow(r) ==
    /\ pc[r] = "jwtVerify"
    /\ UNCHANGED <<options, oidcConfig, proxyVars, storeVars, fwdVars, pureVars, clientVars, routerVars, req>>
    /\ LET token == bearerToken(req[r].header)
           v == jwtVerify(token)
           expected == expectedClientId(options)
       IN  IF ~v.ok \/ ~bindingCheck(v.payload, expected)
           THEN createAuthInfo(r, Null, log[r])
           ELSE createAuthInfo(r, inputAuthInfo(token, v.payload),
                               log[r] \o <<"verified", "bound">>)

\* jwtVerifyReturns reading the token from one place shared by the calls in
\* flight
jwtVerifyReturns_shared(r) ==
    /\ pc[r] = "jwtVerify"
    /\ UNCHANGED <<options, oidcConfig, proxyVars, storeVars, fwdVars, pureVars, clientVars, routerVars, req>>
    /\ LET token == bearerToken(req[CHOOSE x \in Reqs : pc[x] = "jwtVerify"].header)
           v == jwtVerify(token)
           expected == expectedClientId(options)
       IN  IF ~v.ok
           THEN /\ settle(r, Thrown("JWTVerificationError", wrappedMessage(v)))
                /\ UNCHANGED <<log, loginArgs, loginRet>>
           ELSE IF ~bindingCheck(v.payload, expected)
           THEN /\ settle(r, Thrown("JWTVerificationError", bindingMessage(expected)))
                /\ log' = [log EXCEPT ![r] = Append(@, "verified")]
                /\ UNCHANGED <<loginArgs, loginRet>>
           ELSE createAuthInfo(r, inputAuthInfo(token, v.payload),
                               log[r] \o <<"verified", "bound">>)

\* jwtVerify settles: extractBearerToken returns {token, payload} or throws a
\* JWTVerificationError; the binding check follows a successful verification
jwtVerifyReturns(r) ==
    /\ pc[r] = "jwtVerify"
    /\ UNCHANGED <<options, oidcConfig, proxyVars, storeVars, fwdVars, pureVars, clientVars, routerVars, req>>
    /\ LET token == bearerToken(req[r].header)
           v == jwtVerify(token)
           expected == expectedClientId(options)
       IN  IF ~v.ok
           THEN /\ settle(r, Thrown("JWTVerificationError", wrappedMessage(v)))
                /\ UNCHANGED <<log, loginArgs, loginRet>>
           ELSE IF ~bindingCheck(v.payload, expected)
           THEN /\ settle(r, Thrown("JWTVerificationError", bindingMessage(expected)))
                /\ log' = [log EXCEPT ![r] = Append(@, "verified")]
                /\ UNCHANGED <<loginArgs, loginRet>>
           ELSE createAuthInfo(r, inputAuthInfo(token, v.payload),
                               log[r] \o <<"verified", "bound">>)

\* onLoginReturns keeping the verified candidate when there is one
onLoginReturns_merge(r) ==
    /\ pc[r] = "onLogin"
    /\ UNCHANGED <<options, oidcConfig, proxyVars, storeVars, fwdVars, pureVars, clientVars, routerVars, req, log, loginArgs>>
    /\ \E o \in OnLoginOutcomes(loginArgs[r][Len(loginArgs[r])]) :
          /\ loginRet' = [loginRet EXCEPT ![r] = o]
          /\ IF o.kind = "throw"
             THEN settle(r, Thrown(o.class, o.message))
             ELSE IF loginArgs[r][Len(loginArgs[r])] # Null /\ o.value # Null
             THEN settle(r, handleRequestResult(loginArgs[r][Len(loginArgs[r])]))
             ELSE settle(r, handleRequestResult(o.value))

\* onLoginReturns wrapping what onLogin throws as a verification failure
onLoginReturns_wrap(r) ==
    /\ pc[r] = "onLogin"
    /\ UNCHANGED <<options, oidcConfig, proxyVars, storeVars, fwdVars, pureVars, clientVars, routerVars, req, log, loginArgs>>
    /\ \E o \in OnLoginOutcomes(loginArgs[r][Len(loginArgs[r])]) :
          /\ loginRet' = [loginRet EXCEPT ![r] = o]
          /\ IF o.kind = "throw"
             THEN settle(r, Thrown("JWTVerificationError", o.message))
             ELSE settle(r, handleRequestResult(o.value))

\* onLogin settles: createAuthInfo returns its value or rethrows
onLoginReturns(r) ==
    /\ pc[r] = "onLogin"
    /\ UNCHANGED <<options, oidcConfig, proxyVars, storeVars, fwdVars, pureVars, clientVars, routerVars, req, log, loginArgs>>
    /\ \E o \in OnLoginOutcomes(loginArgs[r][Len(loginArgs[r])]) :
          /\ loginRet' = [loginRet EXCEPT ![r] = o]
          /\ IF o.kind = "throw"
             THEN settle(r, Thrown(o.class, o.message))
             ELSE settle(r, handleRequestResult(o.value))

NextAuth(R) ==
    \/ \E r \in R, method \in Methods, path \in Paths, authHeader \in Headers :
          tokenValidationMiddleware(r, method, path, authHeader)
    \/ \E r \in R : jwtVerifyReturns(r)
    \/ \E r \in R : onLoginReturns(r)

Next == NextAuth(OneReq)

vars == <<options, oidcConfig, authVars, proxyVars, storeVars, fwdVars, pureVars, clientVars, routerVars>>

Spec == Init /\ [][Next]_vars

\* The legacy proxy: authorize requests from A, and the callbacks C, each in
\* its own steps, taking requests from Q.  A key is unguessable: a callback
\* carries one only after handleAuthorize has sent it upstream.
NextProxy(A, C, Q) ==
    \/ \E q \in A : handleAuthorize(q)
    \/ \E c \in C : \E q \in {x \in Q : x.state \in Keys => x.state \in DOMAIN flow} :
          handleCallback(c, q)
    \/ \E c \in C : getReturns(c)
    \/ \E c \in C : deleteReturns(c)
    \/ tick

\* complete authorize requests, and callbacks handled one after the other
NextSeq ==
    NextProxy(StoredRequests, OneCb,
              CallbackRequests({KeySeq[1], KeySeq[2]}))

SpecSeq == InitLegacy /\ [][NextSeq]_vars

\* two callbacks in flight together
NextConc ==
    NextProxy({q \in StoredRequests : q.state # ""}, Cbs,
              {q \in CallbackRequests({KeySeq[1]}) : q.hasUrl /\ q.code # "" /\ q.state # ""})

SpecProxy == InitLegacy /\ [][NextConc]_vars

\* The authorize endpoint on its own, with every kind of request
NextAuthorize ==
    \/ \E q \in StoredRequests \cup RejectedRequests : handleAuthorize(q)
    \/ tick

SpecAuthorize == InitLegacy /\ [][NextAuthorize]_vars

\* The token endpoint, after flows that brought a code back to the client
NextToken ==
    \/ \E q \in {x \in StoredRequests : x.redirect_uri.valid} : handleAuthorize(q)
    \/ \E c \in OneCb :
          \E q \in {x \in CallbackRequests(DOMAIN flow) : x.state \in DOMAIN flow /\ x.code # ""} :
             handleCallback(c, q)
    \/ \E c \in OneCb : getReturns(c)
    \/ \E c \in OneCb : deleteReturns(c)
    \/ \E q \in {x \in TokenRequests(DOMAIN flow) : x.of # "" => redirected[x.of] > 0} :
          handleToken(q)
    \/ \E u \in UpstreamOutcomes : tokenFetchReturns(u)

SpecToken == InitLegacy /\ [][NextToken]_vars

\* The registration endpoint, with and without an upstream one
InitRegistration ==
    /\ options \in {o \in Options : /\ o.wellKnownUrl = Undef
                                    /\ ~o.onLogin
                                    /\ o.mcpRoute = Unset
                                    /\ o.enableLegacyOAuth = Undef}
    /\ oidcConfig \in OidcConfigs
    /\ InitAuth
    /\ InitProxy
    /\ InitStore
    /\ InitFwd
    /\ InitPure
    /\ InitClient
    /\ InitRouter

NextRegistration ==
    \/ \E q \in RegistrationRequests : handleRegistration(q)
    \/ \E u \in UpstreamOutcomes : registrationFetchReturns(u)

SpecRegistration == InitRegistration /\ [][NextRegistration]_vars

\* The four handlers together, with the requests and upstream outcomes that
\* make them fail beside ones that do not
NextHandlers ==
    \/ \E q \in {x \in StoredRequests \cup RejectedRequests :
                    ~x.hasUrl \/ x.redirect_uri = BadUrl} : handleAuthorize(q)
    \/ \E c \in OneCb :
          \E q \in {NoQuery} \cup {x \in CallbackRequests(DOMAIN flow) :
                                     /\ x.state \in DOMAIN flow
                                     /\ x.code # "" \/ x.error = "server_error"} :
             handleCallback(c, q)
    \/ \E c \in OneCb : getReturns(c)
    \/ \E c \in OneCb : deleteReturns(c)
    \/ \E q \in TokenRequests({}) : handleToken(q)
    \/ \E u \in {x \in UpstreamOutcomes : x.rejected \/ x.status = 200} : tokenFetchReturns(u)
    \/ \E q \in {x \in RegistrationRequests : x.fields = <<>> /\ x.bodyKind # "express"} :
          handleRegistration(q)
    \/ \E u \in {x \in UpstreamOutcomes : x.rejected \/ x.status = 200} :
          registrationFetchReturns(u)

SpecHandlers == InitLegacy /\ [][NextHandlers]_vars

\* Two requests in the middleware together, each at its own suspension
\* point, with and without onLogin and a configured client ID
InitConcurrent ==
    /\ options \in {o \in Options : /\ o.wellKnownUrl = Undef
                                    /\ o.mcpRoute = Unset
                                    /\ o.enableLegacyOAuth = Undef
                                    /\ ~o.forceHttps}
    /\ oidcConfig = [registration_endpoint |-> TRUE]
    /\ InitAuth
    /\ InitProxy
    /\ InitStore
    /\ InitFwd
    /\ InitPure
    /\ InitClient
    /\ InitRouter

NextConcurrent ==
    \/ \E r \in Reqs, path \in {DEFAULT_MCP_ROUTE, <<"/", "test">>},
          authHeader \in {<<>>} \cup {<<"Bearer ", t>> :
                                        t \in {"t_expired", "t_cidE", "t_other", "t_aud"}} :
          tokenValidationMiddleware(r, "GET", path, authHeader)
    \/ \E r \in Reqs : jwtVerifyReturns(r)
    \/ \E r \in Reqs : onLoginReturns(r)

SpecConcurrent == InitConcurrent /\ [][NextConcurrent]_vars

\* createAuthInfo's candidate on its own: the claims of a verified token,
\* with client_id absent, empty or set, aud absent or set, and a scope claim
\* absent, empty, of one word, of three, with two spaces together and with a
\* leading space
CandidatePayloads ==
    {Payload(cid, Undef, aud, sc[1], sc[2]) :
        cid \in {Undef, "", "client-a"},
        aud \in {Undef, "aud-b"},
        sc \in {<<FALSE, <<>>>>, <<TRUE, <<>>>>, <<TRUE, <<"a">>>>,
                <<TRUE, <<"a", " ", "b", " ", "c">>>>, <<TRUE, <<"a", " ", " ", "b">>>>,
                <<TRUE, <<" ", "a">>>>}}

InitCandidate ==
    /\ options \in {o \in Options : /\ o.clientId = Undef /\ o.wellKnownUrl = Undef
                                    /\ ~o.onLogin /\ o.mcpRoute = Unset
                                    /\ o.enableLegacyOAuth = Undef /\ ~o.forceHttps}
    /\ oidcConfig = [registration_endpoint |-> TRUE]
    /\ InitAuth
    /\ InitProxy
    /\ InitStore
    /\ InitFwd
    /\ InitClient
    /\ InitRouter
    /\ inputInfo \in {[NoCandidate EXCEPT !.token = t, !.payload = p] :
                         t \in {"t_cidE", "t_aud"}, p \in CandidatePayloads}

\* const inputAuthInfo = token && payload ? {...} : null
buildCandidate ==
    /\ ~inputInfo.built
    /\ inputInfo' = [inputInfo EXCEPT !.built = TRUE,
                                      !.value = inputAuthInfo(inputInfo.token,
                                                              inputInfo.payload)]
    /\ UNCHANGED <<options, oidcConfig, authVars, proxyVars, storeVars, fwdVars, clientVars, routerVars>>

NextCandidate == buildCandidate

SpecCandidate == InitCandidate /\ [][NextCandidate]_vars

\* The state store on its own
InitStateStore ==
    /\ options \in {o \in Options : /\ o.clientId = Undef /\ o.wellKnownUrl = Undef
                                    /\ ~o.onLogin /\ o.mcpRoute = Unset
                                    /\ o.enableLegacyOAuth = Undef /\ ~o.forceHttps}
    /\ oidcConfig = [registration_endpoint |-> TRUE]
    /\ InitAuth
    /\ InitProxy
    /\ InitStore
    /\ InitFwd
    /\ InitPure
    /\ InitClient
    /\ InitRouter

\* two flows with their own redirect URIs and states, and two callbacks in
\* flight together, each for either flow
FlowRequests ==
    {AuthorizeRequest("http", "code", "X", R1, "S1", "", "", ""),
     AuthorizeRequest("https", "code", "Y", R2, "S2", "openid", "ch4", "S256")}

FlowCallbacks ==
    {q \in CallbackRequests({KeySeq[1], KeySeq[2]}) :
        q.state \in Keys /\ (q.code # "" \/ q.error = "server_error")}

NextFlows == NextProxy(FlowRequests, Cbs, FlowCallbacks)

SpecFlows == InitStateStore /\ [][NextFlows]_vars

\* The legacy router: with and without an upstream registration endpoint,
\* configured and upstream scopes
InitLegacyRouter ==
    /\ options \in {o \in Options : /\ o.clientId = Undef /\ o.wellKnownUrl = Undef
                                    /\ ~o.onLogin /\ o.mcpRoute = Unset
                                    /\ o.enableLegacyOAuth = Undef /\ ~o.forceHttps}
    /\ oidcConfig \in OidcConfigs
    /\ InitAuth
    /\ InitProxy
    /\ InitStore
    /\ InitFwd
    /\ InitPure
    /\ InitClient
    /\ router \in {[NoRouter EXCEPT !.scopesSupported = a, !.scopes_supported = b] :
                      a \in {Unset, <<"custom-scope">>}, b \in {Unset, <<"openid", "email">>}}

NextRouter ==
    \/ createRouter
    \/ \E method \in Methods, protocol \in {"http", "https"}, host \in {"example.com", "localhost:3000"} :
          \E path \in {LEGACY_WELL_KNOWN, LEGACY_AUTHORIZE, LEGACY_TOKEN, LEGACY_REGISTER,
                       LEGACY_CALLBACK, <<"/", "test">>} :
             routerRequest(method, path, protocol, host)

SpecRouter == InitLegacyRouter /\ [][NextRouter]_vars

\* The command-line client and its provider
SpecClient == InitStateStore /\ [][NextClient]_vars

NextStore ==
    \/ \E k \in StoreKeys, state \in StoreRecords : stateStoreSet(k, state)
    \/ \E k \in StoreKeys : stateStoreGet(k)
    \/ \E k \in StoreKeys : stateStoreDelete(k)
    \/ stateStoreCleanup
    \/ \E t \in Times : setSystemTime(t)

SpecStore == InitStateStore /\ [][NextStore]_vars

(***************************************************************************)
(* Properties of handleRequest and of the protected-route middleware       *)
(***************************************************************************)
Range(q) == {q[i] : i \in 1..Len(q)}

\* handleRequest was called for r
Invoked(r) == pc[r] \in {"jwtVerify", "onLogin"} \/ outcome[r].kind # "pending"

Settled(r) == outcome[r].kind # "pending"

\* r's Authorization header is "Bearer " and a token
CarriesBearer(r) == Len(req[r].header) = 2 /\ Head(req[r].header) = "Bearer "

\* the verified claims of r's bearer token
Verdict(r) == jwtVerify(req[r].header[2])

BindingHolds(r, E) == Verdict(r).payload.client_id = E \/ Verdict(r).payload.tid = E

C7_MissingTokenReachesOnLogin ==
    \A r \in Reqs :
       (Invoked(r) /\ ~CarriesBearer(r)) =>
          /\ "jwtVerify" \notin Range(log[r])
          /\ outcome[r].class # "JWTVerificationError"
          /\ options.onLogin => loginArgs[r] = <<Null>>
          /\ (options.onLogin /\ Settled(r)) => loginRet[r].kind # "none"
          /\ (loginRet[r].kind = "return" /\ loginRet[r].value # Null) =>
                outcome[r] = Returned(loginRet[r].value)

\* onLogin made an identity for a request without a token
C7_Witness ==
    \E r \in Reqs :
       /\ req[r].header = <<>> /\ options.onLogin
       /\ outcome[r].kind = "return" /\ outcome[r].value.clientId = "api-client"

\* C8: a null final identity (no token and no onLogin, or onLogin returned
\* null) makes handleRequest throw the AuthenticationError "Authentication
\* failed", not a JWTVerificationError; it never returns null.
C8_NullIdentityFails ==
    \A r \in Reqs :
       /\ outcome[r].kind = "return" => outcome[r].value # Null
       /\ (Settled(r) /\
             \/ (~options.onLogin /\ ~CarriesBearer(r))
             \/ (loginRet[r].kind = "return" /\ loginRet[r].value = Null)) =>
             /\ outcome[r].kind = "throw"
             /\ outcome[r].class = "AuthenticationError"
             /\ outcome[r].message = <<"Authentication failed">>

\* onLogin returned null for a valid token
C8_Witness ==
    \E r \in Reqs :
       /\ req[r].header = <<"Bearer ", "t_public">> /\ "bound" \in Range(log[r])
       /\ loginRet[r].kind = "return" /\ loginRet[r].value = Null
       /\ outcome[r].kind = "throw"

\* the candidate of a token, as the tests of handleRequest expect it
ExpectedCandidate(token) ==
    LET p == jwtVerify(token).payload
    IN  [token |-> token,
         clientId |-> IF p.client_id \in {Undef, ""} THEN p.aud ELSE p.client_id,
         scopes |-> CASE token = "t_tidE" -> <<<<"openid">>, <<"profile">>>>
                      [] token = "t_aud" -> <<>>
                      [] OTHER -> <<<<"openid">>>>,
         expiresAt |-> 1234567890,
         extra |-> [sub |-> "user123"]]

\* C9: with onLogin configured and a valid token, the identity handleRequest
\* returns is exactly what onLogin returned; without onLogin it is the
\* candidate built from the claims.
C9_EnrichmentPrecedence ==
    \A r \in Reqs :
       (Settled(r) /\ CarriesBearer(r) /\ "bound" \in Range(log[r])) =>
          IF options.onLogin
          THEN /\ loginArgs[r] = <<ExpectedCandidate(req[r].header[2])>>
               /\ loginRet[r].kind # "none"
               /\ (loginRet[r].kind = "return" /\ loginRet[r].value # Null) =>
                     /\ outcome[r] = Returned(loginRet[r].value)
                     /\ reqAuth[r] = loginRet[r].value
          ELSE /\ outcome[r] = Returned(ExpectedCandidate(req[r].header[2]))
               /\ reqAuth[r] = ExpectedCandidate(req[r].header[2])

\* onLogin dropped fields of the candidate and that is what came back
C9_Witness ==
    \E r \in Reqs :
       /\ options.onLogin /\ "bound" \in Range(log[r])
       /\ outcome[r].kind = "return"
       /\ outcome[r].value = [token |-> req[r].header[2],
                              clientId |-> loginArgs[r][1].clientId]

\* C10 as claimed: for every request whose path starts with the protected
\* prefix, the downstream handler is reached only after handleRequest
\* succeeded and its identity was attached to the request.
C10_Original ==
    \A r \in Reqs :
       (StartsWith(req[r].path, mcpRoute(options)) /\ downstream[r]) =>
          /\ outcome[r].kind = "return"
          /\ reqAuth[r] = outcome[r].value /\ reqAuth[r] # Null

\* C10 amended: the same for every request whose path starts with the
\* protected prefix and is not a legacy OAuth path of a router in legacy
\* mode; and whenever handleRequest fails, downstream is not reached.
C10_ProtectedNeedsIdentity ==
    \A r \in Reqs :
       /\ (/\ StartsWith(req[r].path, mcpRoute(options))
           /\ ~(options.enableLegacyOAuth # "false" /\ req[r].path \in getOAuthPaths)
           /\ downstream[r]) =>
             /\ outcome[r].kind = "return"
             /\ reqAuth[r] = outcome[r].value /\ reqAuth[r] # Null
       /\ outcome[r].kind = "throw" => ~downstream[r]

\* a request below the protected prefix reached downstream with an identity
C10_Witness ==
    \E r \in Reqs :
       /\ req[r].path = <<"/", "mcp", "/", "test">> /\ options.mcpRoute = Unset
       /\ downstream[r] /\ reqAuth[r] # Null


(***************************************************************************)
(* Properties of the legacy proxy's authorize and callback handlers        *)
(***************************************************************************)
\* callback c has been answered, and its request carried state k
Answered(c, k) ==
    cb[c].pc = "done" /\ cb[c].query.hasUrl /\ cb[c].query.state = k

\* the response redirects to the redirect URI that the flow of key k registered
ToClient(r, k) ==
    /\ r.status = 302
    /\ k \in DOMAIN flow
    /\ r.location.base = flow[k].request.redirect_uri.base

\* C3: with callbacks handled one after the other, at most one callback per
\* stored key is answered with a redirect to the client's redirect URI, the
\* record of that key is gone from the store once it is, and a callback whose
\* state was consumed before it arrived, was never stored or had expired is
\* answered 400 invalid_request "Invalid state", with no redirect.
C3_SingleUse ==
    /\ \A k \in Keys : redirected[k] <= 1
    /\ \A c \in OneCb : \A k \in Keys \cup {"bogus"} :
          Answered(c, k) =>
             /\ cb[c].resp.status = 302 => ToClient(cb[c].resp, k) /\ k \notin DOMAIN states
             /\ (cb[c].spent \/ ~cb[c].known \/ cb[c].stale) =>
                   /\ cb[c].resp.status = 400
                   /\ cb[c].resp.body.error = "invalid_request"
                   /\ cb[c].resp.body.error_description = "Invalid state"
                   /\ cb[c].resp.location = NoUrl

\* a second callback with a key that an earlier one was redirected for
C3_Witness ==
    \E k \in Keys :
       /\ redirected[k] = 1
       /\ Answered("c1", k)
       /\ cb["c1"].spent
       /\ cb["c1"].query.code # ""
       /\ cb["c1"].resp = InvalidState

\* C4: with two callbacks carrying the same key in flight together, at most
\* one of them is answered with a redirect to the client's redirect URI.
C4_ConsumedOnce ==
    \A k \in Keys :
       ~(\E c, d \in Cbs :
            /\ c # d
            /\ Answered(c, k) /\ ToClient(cb[c].resp, k)
            /\ Answered(d, k) /\ ToClient(cb[d].resp, k))

\* what handleAuthorize answered the request that began flow k with: the
\* upstream authorization endpoint, redirect_uri this proxy's callback URL, and
\* the fresh key as state
UpstreamRedirect(k) ==
    LET r == flow[k].resp
    IN  /\ r.status = 302
        /\ r.location.base = "https://auth.civic.com/authorize"
        /\ searchParamsGet(r.location.query, "response_type") = "code"
        /\ searchParamsGet(r.location.query, "redirect_uri") \in
              {"http://mcp.example/oauth/callback", "https://mcp.example/oauth/callback"}
        /\ searchParamsGet(r.location.query, "redirect_uri") # flow[k].request.redirect_uri.base
        /\ searchParamsGet(r.location.query, "state") = k
        /\ k # flow[k].request.state

\* the response redirects to R with code and, when S is given, state S; the
\* parameters R came with are kept
ClientRedirect(r, R, code, S) ==
    /\ r.status = 302
    /\ r.location.valid
    /\ r.location.base = R.base
    /\ \A i \in 1..Len(R.query) : r.location.query[i] = R.query[i]
    /\ searchParamsGet(r.location.query, "code") = code
    /\ searchParamsGet(r.location.query, "state") = S
    /\ Len(r.location.query) = Len(R.query) + (IF S = "" THEN 1 ELSE 2)

\* the first callback for key k, with a code and no upstream error
FirstCodeCallback(c, k) ==
    /\ Answered(c, k)
    /\ cb[c].known
    /\ ~cb[c].spent
    /\ cb[c].query.code # ""
    /\ cb[c].query.error = ""

C11_ErrorMapping ==
    \A r \in Reqs :
       outcome[r].kind = "throw" =>
          IF outcome[r].class \in {"AuthenticationError", "JWTVerificationError"}
          THEN /\ resp[r].status = 401
               /\ resp[r].error = "authentication_error"
               /\ resp[r].error_description = outcome[r].message
          ELSE /\ resp[r].status = 500
               /\ resp[r].error = "internal_error"
               /\ resp[r].error_description = <<"An unexpected error occurred">>
               /\ resp[r].error_description # outcome[r].message

\* a verification failure answered 401 with the message of the jose error
C11_Witness ==
    \E r \in Reqs :
       /\ outcome[r].kind = "throw"
       /\ outcome[r].class = "JWTVerificationError"
       /\ protects(options, req[r].path)
       /\ resp[r].status = 401
       /\ resp[r].error_description = <<"\"exp\" claim timestamp check failed">>

(***************************************************************************)
(* Properties of InMemoryStateStore                                        *)
(***************************************************************************)
\* C12: once a key was deleted, or a get or cleanup found its record expired,
\* and it was not set again, the store no longer holds it and every get of it
\* returns null, wherever the clock is put afterwards; a get of a key whose
\* record is expired at the time of the call returns null as well.
C12_GoneStaysGone ==
    /\ \A k \in hist.gone : k \notin DOMAIN states
    /\ lastGet.called /\ (lastGet.wasGone \/ ~lastGet.wasSet.found) => ~lastGet.value.found
    /\ lastGet.called /\ lastGet.wasSet.found
          /\ lastGet.at - lastGet.wasSet.createdAt > STATE_EXPIRATION_MS
          => ~lastGet.value.found

\* a get found the record expired, the clock was put back to when the record
\* was young, and the next get of the key still returned null
C12_Witness ==
    /\ lastGet.called
    /\ lastGet.key \in hist.lapsed
    /\ lastGet.wasGone
    /\ lastGet.at - lastGet.wasSet.createdAt <= STATE_EXPIRATION_MS
    /\ ~lastGet.value.found

\* C13: get returns null for a record older than the window whether or not
\* cleanup has run, returns a record no older than the window as it was set,
\* and what it returns for one key does not depend on the age of another.
C13_ExpiryPerKey ==
    lastGet.called /\ lastGet.wasSet.found /\ ~lastGet.wasGone =>
       IF lastGet.at - lastGet.wasSet.createdAt > 10 * 60 * 1000
       THEN ~lastGet.value.found
       ELSE lastGet.value = lastGet.wasSet

\* cleanup never ran, one key's record has expired and is still in the store,
\* and the get of the other key returned its record
C13_Witness ==
    /\ lastGet.called
    /\ ~hist.cleaned
    /\ lastGet.key = "b" /\ lastGet.value.found /\ lastGet.value = hist.set["b"]
    /\ "a" \in DOMAIN states /\ now - states["a"].createdAt > 10 * 60 * 1000
    /\ lastGet.at = now

(***************************************************************************)
(* Properties of handleAuthorize's rejections                              *)
(***************************************************************************)
\* the response is an error redirect to the caller's redirect_uri with this
\* error, a description and the caller's state
ErrorRedirect(r, q, error) ==
    /\ r.status = 302
    /\ r.location.base = q.redirect_uri.base
    /\ searchParamsGet(r.location.query, "error") = error
    /\ searchParamsGet(r.location.query, "error_description") # ""
    /\ searchParamsGet(r.location.query, "state") = q.state

\* the last authorize request lacked a required parameter
MissingRequired ==
    /\ authReq.hasUrl
    /\ authReq.response_type = "" \/ authReq.client_id = "" \/ authReq.redirect_uri.base = ""

\* C14: an authorize request missing response_type, client_id or redirect_uri
\* is answered 400 with a JSON body invalid_request when it has no
\* redirect_uri, and with a 302 error redirect to its redirect_uri carrying
\* invalid_request, a description and its state when it has one; neither
\* leads to the upstream authorization endpoint.
C14_MissingParameters ==
    MissingRequired =>
       /\ authResp.location.base # authorization_endpoint.base
       /\ IF authReq.redirect_uri.base = ""
          THEN /\ authResp.status = 400
               /\ authResp.body.error = "invalid_request"
               /\ authResp.location = NoUrl
          ELSE ErrorRedirect(authResp, authReq, "invalid_request")

\* C15: an authorize request with the three required parameters and a
\* response_type other than "code" is answered with a 302 error redirect to
\* its redirect_uri carrying unsupported_response_type and its state, and is
\* not sent upstream.
C15_UnsupportedResponseType ==
    /\ authReq.hasUrl /\ ~MissingRequired
    /\ authReq.response_type # "code"
    => /\ authResp.location.base # authorization_endpoint.base
       /\ ErrorRedirect(authResp, authReq, "unsupported_response_type")

(***************************************************************************)
(* Properties of handleCallback's error pass-through                       *)
(***************************************************************************)
\* the callback carried an upstream error for a key whose record was in the
\* store and young when it arrived
ErrorCallback(c, k) ==
    /\ Answered(c, k)
    /\ cb[c].known /\ ~cb[c].spent /\ ~cb[c].stale
    /\ cb[c].query.error # ""

\* C16: a callback carrying an upstream error for a stored state is answered
\* with a redirect to the redirect URI recorded at the authorize step, with
\* error, error_description and error_uri as received and the caller's own
\* state in place of the internal one; the record is consumed.
C16_ErrorPassThrough ==
    \A c \in OneCb : \A k \in DOMAIN flow :
       ErrorCallback(c, k) =>
          LET r == cb[c].resp
              q == cb[c].query
              R == flow[k].request.redirect_uri
          IN  /\ r.status = 302
              /\ r.location.base = R.base
              /\ \A i \in 1..Len(R.query) : r.location.query[i] = R.query[i]
              /\ searchParamsGet(r.location.query, "error") = q.error
              /\ searchParamsGet(r.location.query, "error_description") = q.error_description
              /\ searchParamsGet(r.location.query, "error_uri") = q.error_uri
              /\ searchParamsGet(r.location.query, "state") = flow[k].request.state
              /\ searchParamsGet(r.location.query, "state") # k
              /\ k \notin DOMAIN states

(***************************************************************************)
(* Properties of the scope sent upstream                                   *)
(***************************************************************************)
\* C17: the upstream authorization URL of every accepted authorize request
\* carries the fixed default scope when the request has no scope, and the
\* request's scope when it has one.
C17_DefaultScope ==
    \A k \in DOMAIN flow :
       searchParamsGet(flow[k].resp.location.query, "scope") =
          IF flow[k].request.scope = "" THEN FIXED_SCOPE ELSE flow[k].request.scope

(***************************************************************************)
(* Properties of the requests forwarded upstream                           *)
(***************************************************************************)
\* the values a body has for a name, in order
valuesOf(body, name) ==
    LET hits == SelectSeq(body, LAMBDA e : e[1] = name)
    IN  [i \in 1..Len(hits) |-> hits[i][2]]

namesOf(body) == {body[i][1] : i \in 1..Len(body)}

\* a registration request has been forwarded
Registered == reg.sent

\* C18 as stated: the forwarded registration body has the fixed default scope
\* as its only scope, and every other field of the request with every value
\* the request gave it.
C18_FieldsUnchanged ==
    Registered =>
       /\ valuesOf(reg.body, "scope") = <<FIXED_SCOPE>>
       /\ namesOf(reg.body) \ {"scope"} = namesOf(reg.req.fields) \ {"scope"}
       /\ \A n \in namesOf(reg.req.fields) \ {"scope"} :
             valuesOf(reg.body, n) = valuesOf(reg.req.fields, n)

\* C18: the forwarded registration body has the fixed default scope as its
\* only scope, whatever scope the request had, and every other field of the
\* request with its value: with its only value when the body is an object
\* (Express-parsed or JSON), with the last of its values when the body is a
\* form.
C18_ScopeOverwritten ==
    Registered =>
       /\ valuesOf(reg.body, "scope") = <<FIXED_SCOPE>>
       /\ namesOf(reg.body) \ {"scope"} = namesOf(reg.req.fields) \ {"scope"}
       /\ \A n \in namesOf(reg.req.fields) \ {"scope"} :
             LET given == valuesOf(reg.req.fields, n)
             IN  valuesOf(reg.body, n) = <<given[Len(given)]>>
       /\ reg.req.bodyKind # "form" =>
             \A n \in namesOf(reg.req.fields) \ {"scope"} :
                valuesOf(reg.body, n) = valuesOf(reg.req.fields, n)

\* a form that sent its own scope and named another field twice is forwarded
C18_Witness ==
    /\ Registered
    /\ reg.req.bodyKind = "form"
    /\ valuesOf(reg.req.fields, "redirect_uris")
          = <<"https://client.example/cb", "https://other.example/cb">>

\* a token request has been forwarded
Forwarded == tok.sent

\* C19 as stated: with a client ID configured, every forwarded token request
\* carries the configured client_id.
C19_AlwaysConfigured ==
    (Forwarded /\ ~Falsy(options.clientId)) =>
       valuesOf(tok.body, "client_id") = <<options.clientId>>

\* C19: a forwarded token request carries a client_id exactly when the
\* caller's request had one; with a client ID configured it is the configured
\* one and never the caller's, without one it is the caller's.
C19_ConfiguredClientId ==
    Forwarded =>
       IF tok.req.fields.client_id = ""
       THEN valuesOf(tok.body, "client_id") = <<>>
       ELSE valuesOf(tok.body, "client_id") =
               <<IF Falsy(options.clientId) THEN tok.req.fields.client_id
                 ELSE options.clientId>>

\* with a client ID configured, a token request naming another client has
\* been forwarded and answered
C19_Witness ==
    /\ Forwarded
    /\ tok.pc = "done"
    /\ ~Falsy(options.clientId)
    /\ tok.req.fields.client_id \notin {"", options.clientId}

\* C20: a token request that redeems the code of a flow and names a
\* redirect_uri is forwarded with the redirect_uri that handleAuthorize sent
\* upstream for that flow, this proxy's /oauth/callback URL, and not with the
\* caller's.
C20_SameRedirectUri ==
    (Forwarded /\ tok.req.of # "" /\ tok.req.fields.redirect_uri # "") =>
       /\ valuesOf(tok.body, "redirect_uri") =
             <<searchParamsGet(flow[tok.req.of].resp.location.query, "redirect_uri")>>
       /\ valuesOf(tok.body, "redirect_uri") # <<tok.req.fields.redirect_uri>>

(***************************************************************************)
(* Properties of the answers of the token and registration endpoints       *)
(***************************************************************************)
\* the token request's body was read and has no grant_type
NoGrantType == tok.req.bodyKind \in {"express", "form"} /\ tok.req.fields.grant_type = ""

\* C21: a token request whose body has no grant_type, an empty body
\* included, is answered HTTP 400 invalid_request as soon as it is handled,
\* and nothing is sent to the upstream token endpoint for it.
C21_GrantTypeRequired ==
    NoGrantType =>
       /\ tok.pc = "done"
       /\ tok.resp = JsonError(400, "invalid_request")
       /\ ~tok.sent
       /\ tok.body = <<>>

\* a form that has a code and a client_id but no grant_type has been answered
C21_Witness ==
    /\ NoGrantType
    /\ tok.req.bodyKind = "form"
    /\ tok.req.fields.code # ""
    /\ tok.pc = "done"

\* C22: when the upstream configuration has no registration endpoint, every
\* registration request, whatever its body, is answered HTTP 404 as soon as
\* it is handled and nothing is sent upstream for it; and the legacy router
\* has no route for POST /register.
C22_RegistrationUnsupported ==
    ~oidcConfig.registration_endpoint =>
       /\ reg.pc # "idle" =>
             /\ reg.pc = "done"
             /\ reg.resp = JsonError(404, "Registration not supported")
             /\ ~reg.sent
             /\ reg.body = <<>>
       /\ legacyRoute("POST", LEGACY_REGISTER, oidcConfig) = "none"

\* without an upstream registration endpoint, a JSON registration request
\* with fields of its own has been answered
C22_Witness ==
    /\ ~oidcConfig.registration_endpoint
    /\ reg.pc = "done"
    /\ reg.req.bodyKind = "json"
    /\ reg.req.fields # <<>>

\* the failures inside each handler: the request has no URL or the redirect
\* URI it must answer to does not parse; the body's stream fails or its JSON
\* does not parse; the upstream fetch rejects
AuthorizeFails ==
    \/ ~authReq.hasUrl /\ authResp # NoProxyResp
    \/ /\ authReq.hasUrl
       /\ authReq.redirect_uri = BadUrl
       /\ authReq.response_type # "code" \/ authReq.client_id = ""

CallbackFails(c) ==
    /\ cb[c].pc = "done"
    /\ \/ ~cb[c].query.hasUrl
       \/ cb[c].stateData.found /\ cb[c].stateData.redirectUri = BadUrl

TokenFails ==
    /\ tok.pc = "done"
    /\ tok.req.bodyKind = "error" \/ tok.upstream.rejected

RegistrationFails ==
    /\ reg.pc = "done"
    /\ oidcConfig.registration_endpoint
    /\ reg.req.bodyKind \in {"error", "badjson"} \/ reg.upstream.rejected

\* C23: a failure inside any of the four legacy handlers is caught by the
\* handler: the request is answered HTTP 500 with a JSON body whose error is
\* server_error, and the handler ends.
C23_NoEscape ==
    /\ AuthorizeFails => authResp = ServerError
    /\ \A c \in OneCb : CallbackFails(c) => cb[c].resp = ServerError
    /\ TokenFails => tok.resp = JsonError(500, "server_error")
    /\ RegistrationFails => reg.resp = JsonError(500, "server_error")

\* all four handlers have failed: an authorize request without a URL, a
\* callback whose recorded redirect URI does not parse, a token request
\* whose fetch rejected, a registration request whose JSON does not parse
C23_Witness ==
    /\ ~authReq.hasUrl /\ authResp # NoProxyResp
    /\ \E c \in OneCb : CallbackFails(c) /\ cb[c].stateData.found
    /\ tok.pc = "done" /\ tok.upstream.rejected
    /\ reg.pc = "done" /\ reg.req.bodyKind = "badjson"

\* the upstream token endpoint has answered a forwarded token request
Relayed == tok.pc = "done" /\ tok.sent /\ ~tok.upstream.rejected

\* C24 as stated: every response of the upstream token endpoint is relayed
\* with its status, its content-type and its body unchanged, and with
\* Cache-Control: no-store and Pragma: no-cache.
C24_RelayedUnchanged ==
    Relayed =>
       /\ tok.resp.status = tok.upstream.status
       /\ tok.resp.contentType = tok.upstream.contentType
       /\ tok.resp.body = tok.upstream.body
       /\ tok.resp.cacheControl = "no-store"
       /\ tok.resp.pragma = "no-cache"

\* C24: every response of the upstream token endpoint, of whatever status,
\* is relayed with its status and its body unchanged, with its content-type
\* when it has one and an empty Content-Type header when it has none, and
\* with Cache-Control: no-store and Pragma: no-cache.
C24_Relay ==
    Relayed =>
       /\ tok.resp.status = tok.upstream.status
       /\ tok.resp.contentType =
             IF tok.upstream.contentType = Undef THEN "" ELSE tok.upstream.contentType
       /\ tok.resp.body = tok.upstream.body
       /\ tok.resp.cacheControl = "no-store"
       /\ tok.resp.pragma = "no-cache"

\* an upstream 400 with a JSON body has been relayed
C24_Witness ==
    /\ Relayed
    /\ tok.upstream.status = 400
    /\ tok.upstream.contentType = "application/json"

(***************************************************************************)
(* Properties of the enrichment callback's failures and of the paths the   *)
(* middleware lets through                                                 *)
(***************************************************************************)
\* onLogin threw for request r
OnLoginThrew(r) == loginRet[r].kind = "throw"

\* C25 as stated: what onLogin throws leaves handleRequest as it is, and the
\* middleware answers it HTTP 500 internal_error.
C25_AlwaysInternalError ==
    \A r \in Reqs :
       OnLoginThrew(r) =>
          /\ outcome[r] = Thrown(loginRet[r].class, loginRet[r].message)
          /\ resp[r].status = 500
          /\ resp[r].error = "internal_error"

\* C25: what onLogin throws leaves handleRequest as it is, class and message,
\* never wrapped as a verification failure; the middleware answers it HTTP
\* 500 internal_error without its message, unless what was thrown is an
\* AuthenticationError, which it answers HTTP 401 authentication_error with
\* the message.
C25_EnrichmentErrorPropagates ==
    \A r \in Reqs :
       OnLoginThrew(r) =>
          /\ outcome[r] = Thrown(loginRet[r].class, loginRet[r].message)
          /\ outcome[r].class # "JWTVerificationError"
          /\ IF loginRet[r].class = "AuthenticationError"
             THEN /\ resp[r].status = 401
                  /\ resp[r].error = "authentication_error"
                  /\ resp[r].error_description = loginRet[r].message
             ELSE /\ resp[r].status = 500
                  /\ resp[r].error = "internal_error"
                  /\ resp[r].error_description = <<"An unexpected error occurred">>

\* onLogin threw an Error for a request with a valid token, and the request
\* was answered
C25_Witness ==
    \E r \in Reqs :
       /\ OnLoginThrew(r)
       /\ loginRet[r].class = "Error"
       /\ "bound" \in Range(log[r])
       /\ resp[r].status = 500

\* C26 as stated: handleRequest is not invoked for a path outside the
\* protected prefix, for the protected-resource metadata path and the paths
\* below it, for the legacy authorization-server metadata path, nor, in
\* legacy mode, for the legacy OAuth paths.
C26_BypassUnconditional ==
    \A r \in Reqs :
       Invoked(r) =>
          /\ StartsWith(req[r].path, mcpRoute(options))
          /\ ~mountMatches(MetadataPath, req[r].path)
          /\ req[r].path # LEGACY_WELL_KNOWN
          /\ enableLegacyOAuth(options) => req[r].path \notin getOAuthPaths

\* C26: handleRequest is not invoked for a path outside the protected
\* prefix, for the protected-resource metadata path and the paths below it,
\* nor, in legacy mode, for the legacy OAuth paths: the legacy
\* authorization-server metadata path, /authorize, /token, /register and
\* /oauth/callback, by whatever method.
C26_Bypass ==
    \A r \in Reqs :
       Invoked(r) =>
          /\ StartsWith(req[r].path, mcpRoute(options))
          /\ ~mountMatches(MetadataPath, req[r].path)
          /\ enableLegacyOAuth(options) => req[r].path \notin getOAuthPaths

\* with everything below / protected and legacy mode on, a request for
\* /token was let through without handleRequest
C26_Witness ==
    \E r \in Reqs :
       /\ mcpRoute(options) = <<"/">>
       /\ enableLegacyOAuth(options)
       /\ req[r].path = LEGACY_TOKEN
       /\ pc[r] = "done"
       /\ ~Invoked(r)

(***************************************************************************)
(* Properties of concurrent requests                                       *)
(***************************************************************************)
\* what handleRequest makes of candidate for r, given what onLogin did for r
aloneFinal(r, candidate) ==
    IF ~options.onLogin THEN handleRequestResult(candidate)
    ELSE IF loginRet[r].kind = "throw" THEN Thrown(loginRet[r].class, loginRet[r].message)
    ELSE handleRequestResult(loginRet[r].value)

\* the candidate handleRequest builds for r when nothing else runs
aloneCandidate(r) ==
    IF CarriesBearer(r) THEN inputAuthInfo(req[r].header[2], Verdict(r).payload) ELSE Null

\* the outcome handleRequest has for r when nothing else runs
aloneOutcome(r) ==
    IF ~CarriesBearer(r) THEN aloneFinal(r, Null)
    ELSE IF ~Verdict(r).ok
    THEN Thrown("JWTVerificationError", wrappedMessage(Verdict(r)))
    ELSE IF ~bindingCheck(Verdict(r).payload, expectedClientId(options))
    THEN Thrown("JWTVerificationError", bindingMessage(expectedClientId(options)))
    ELSE aloneFinal(r, aloneCandidate(r))

\* every call's outcome, and what its onLogin was given, is that of the call
\* run alone
OutcomeAsAlone ==
    \A r \in Reqs :
       /\ Settled(r) => outcome[r] = aloneOutcome(r)
       /\ loginArgs[r] # <<>> => loginArgs[r] = <<aloneCandidate(r)>>

\* C27: under every interleaving of two handleRequest calls at their
\* suspension points (jwtVerify, onLogin), each call's outcome, identity or
\* failure, is the one it has when run alone, and no step changes the
\* instance's options or discovery configuration.
C27_Stateless ==
    /\ []OutcomeAsAlone
    /\ [][options' = options /\ oidcConfig' = oidcConfig]_vars

\* two calls with different tokens are in flight together, one suspended in
\* onLogin and the other in jwtVerify
C27_Witness ==
    /\ pc["r1"] = "onLogin"
    /\ pc["r2"] = "jwtVerify"
    /\ req["r1"].header # req["r2"].header

(***************************************************************************)
(* Properties of the candidate identity                                    *)
(***************************************************************************)
RECURSIVE joined(_)
\* the parts put back together with a space between them
joined(parts) ==
    IF parts = <<>> THEN <<>>
    ELSE IF Len(parts) = 1 THEN parts[1]
    ELSE parts[1] \o <<" ">> \o joined(Tail(parts))

\* scopes are the space-separated parts of scope, in order
PartsOf(scopes, scope) ==
    /\ joined(scopes) = scope
    /\ \A i \in 1..Len(scopes) : \A j \in 1..Len(scopes[i]) : scopes[i][j] # " "

\* C28 as stated: the candidate's scopes are the space-separated parts of
\* the scope claim in order, and none without a scope claim; its clientId is
\* the client_id claim when there is one, otherwise the aud claim.
C28_ClientIdWhenPresent ==
    inputInfo.built =>
       LET p == inputInfo.payload
           v == inputInfo.value
       IN  /\ (p.hasScope /\ p.scope # <<>>) => PartsOf(v.scopes, p.scope)
           /\ ~p.hasScope => v.scopes = <<>>
           /\ v.clientId = IF p.client_id # Undef THEN p.client_id ELSE p.aud

\* C28: the candidate's scopes are the space-separated parts of the scope
\* claim in order, and none when the scope claim is absent or empty; its
\* clientId is the client_id claim when there is one and it is not empty,
\* otherwise the aud claim.
C28_Candidate ==
    inputInfo.built =>
       LET p == inputInfo.payload
           v == inputInfo.value
       IN  /\ (p.hasScope /\ p.scope # <<>>) => PartsOf(v.scopes, p.scope)
           /\ (~p.hasScope \/ p.scope = <<>>) => v.scopes = <<>>
           /\ v.clientId = IF p.client_id \notin {Undef, ""} THEN p.client_id ELSE p.aud
           /\ v.token = inputInfo.token

\* the candidate of a token with scope 'a b c' and no client_id has been built
C28_Witness ==
    /\ inputInfo.built
    /\ inputInfo.payload.scope = <<"a", " ", "b", " ", "c">>
    /\ inputInfo.value.scopes = <<<<"a">>, <<"b">>, <<"c">>>>
    /\ inputInfo.payload.client_id = Undef
    /\ inputInfo.value.clientId = "aud-b"

(***************************************************************************)
(* Properties of the command-line client                                   *)
(***************************************************************************)
\* the first attempt threw an Error whose message is "Unauthorized"
FirstUnauthorized == cli.first.kind = "throw" /\ cli.first.isError /\ cli.first.message = <<"Unauthorized">>

\* C29: CLIClient.connect calls super.connect at most twice.  It calls it a
\* second time only after the first call threw an Error with the message
\* "Unauthorized", tokens() returned nothing and the promise of
\* waitForAuthorizationCode resolved.  Any other error of the first call
\* ends connect with that error, without a wait; what the second call
\* settles with is what connect settles with.
C29_AtMostTwoAttempts ==
    /\ cli.attempts \in {0, 1, 2}
    /\ cli.attempts = 2 =>
          /\ FirstUnauthorized
          /\ cli.tokens = Undef
          /\ cli.waited /\ cli.promise.state = "resolved"
    /\ (cli.first.kind = "throw" /\ ~FirstUnauthorized) =>
          /\ cli.pc = "done" /\ cli.result = cli.first
          /\ cli.attempts = 1 /\ cli.promise = NoPromise /\ cli.tokens = "unasked"
    /\ (cli.attempts = 2 /\ cli.pc = "done") => cli.result = cli.second

\* the second attempt was made and failed
C29_Witness ==
    /\ cli.attempts = 2 /\ cli.pc = "done"
    /\ cli.result = Throw(TRUE, <<"Unauthorized">>)
    /\ prov.finished # {}

\* connect calls waitForAuthorizationCode in this step
WaitCalled ==
    /\ cli.pc = "connect1" /\ cli'.pc # "connect1"
    /\ cli'.tokens = Undef

\* C30: waitForAuthorizationCode throws "Authorization flow not started"
\* when no redirectToAuthorization has been made.  The promise of a started
\* flow is resolved with a code only when that code arrived on /callback and
\* finishAuth succeeded for it.  While it is pending, a callback with an
\* error rejects it with "OAuth error: <error>", a callback with a code and
\* no registered transport rejects it with "No transport registered", and a
\* failing finishAuth rejects it with the failure.  The caller gets what the
\* promise settled with.
C30_WaitForAuthorizationCode ==
    /\ [](/\ prov.promise.state = "resolved" =>
                /\ prov.promise.value[1] \in prov.arrived
                /\ prov.promise.value[1] \in prov.finished
          /\ (prov.last.kind = "error" /\ prov.last.pending) =>
                prov.promise = [state |-> "rejected",
                                value |-> <<"OAuth error: ", prov.last.value[1]>>]
          /\ (prov.last.kind = "noTransport" /\ prov.last.pending) =>
                prov.promise = [state |-> "rejected", value |-> <<"No transport registered">>]
          /\ (prov.last.kind = "failed" /\ prov.last.pending) =>
                prov.promise = [state |-> "rejected", value |-> prov.last.value]
          /\ (prov.last.kind = "finished" /\ prov.last.pending) =>
                prov.promise = [state |-> "resolved", value |-> prov.last.value]
          /\ cli.waited =>
                /\ cli.promise.state = "resolved"
                /\ cli.promise.value[1] \in prov.arrived \cap prov.finished
          /\ (cli.pc = "done" /\ cli.promise.state = "rejected") =>
                cli.result = Throw(TRUE, cli.promise.value))
    /\ [][WaitCalled =>
             /\ prov.last.kind = "none" <=> prov.promise.state = "none"
             /\ IF prov.last.kind = "none"
                THEN cli'.pc = "done"
                     /\ cli'.result = Throw(TRUE, <<"Authorization flow not started">>)
                ELSE cli'.pc = "waiting" /\ cli'.promise = Live]_vars

\* the caller's wait resolved with the second of two codes that arrived
C30_Witness ==
    /\ cli.pc = "connect2" /\ cli.waited
    /\ cli.promise = [state |-> "resolved", value |-> <<"C2">>]
    /\ prov.arrived = {"C1", "C2"}

\* C31: a redirectToAuthorization made while a flow is in progress creates
\* no callback server: no server is replaced while it listens, so a provider
\* never has two.
C31_OneCallbackServer ==
    /\ ~(prov.last.kind = "start" /\ prov.last.pending)
    /\ ~prov.orphan

\* C32: once the code callback succeeded, the error callback was handled, or
\* the allowed time passed with no callback, no callback server of the
\* provider listens.
C32_ServerClosed ==
    prov.last.kind \in {"finished", "error", "timeout"} => ~prov.server /\ ~prov.orphan

(***************************************************************************)
(* Properties of flows through the proxy side by side                      *)
(***************************************************************************)
\* callback c holds, or was answered from, the record of the flow of key k
Holds(c, k) ==
    /\ cb[c].pc \in {"delete", "done"}
    /\ cb[c].stateData.found
    /\ cb[c].query.state = k

\* C33: whatever the interleaving of the flows and of their callbacks, a
\* callback carrying key k works on the record that the handleAuthorize call
\* of key k stored, and every redirect it is answered with goes to that
\* call's redirect URI, with that call's state and with no other flow's.
C33_FlowsApart ==
    \A c \in Cbs : \A k \in Keys :
       /\ Holds(c, k) =>
             /\ k \in DOMAIN flow
             /\ cb[c].stateData.redirectUri = flow[k].request.redirect_uri
             /\ cb[c].stateData.clientState = flow[k].request.state
       /\ (Answered(c, k) /\ cb[c].resp.status = 302) =>
             /\ ToClient(cb[c].resp, k)
             /\ searchParamsGet(cb[c].resp.location.query, "state") = flow[k].request.state
             /\ \A j \in DOMAIN flow \ {k} :
                   flow[j].request # flow[k].request =>
                      /\ cb[c].resp.location.base # flow[j].request.redirect_uri.base
                      /\ searchParamsGet(cb[c].resp.location.query, "state")
                            # flow[j].request.state

\* the callback of the second flow was answered while the callback of the
\* first, which began with another redirect URI, holds its record
C33_Witness ==
    /\ Holds("c1", "k1") /\ cb["c1"].pc = "delete"
    /\ Answered("c2", "k2") /\ cb["c2"].resp.status = 302
    /\ flow["k1"].request.redirect_uri # flow["k2"].request.redirect_uri
    /\ searchParamsGet(cb["c2"].resp.location.query, "code") = "C1"

(***************************************************************************)
(* Properties of what handleAuthorize and handleCallback do to the store   *)
(***************************************************************************)
\* the authorize request passes handleAuthorize's validation
Accepted(q) ==
    /\ q.hasUrl
    /\ q.response_type = "code" /\ q.client_id # "" /\ q.redirect_uri.base # ""

\* C34: a handleAuthorize call that rejects its request leaves the state
\* store as it was; one that accepts it adds one record and changes no
\* other, under a key that no record and no earlier flow had, holding the
\* request's redirect_uri, state, code challenge and method, scope and
\* client_id.
C34_StoreOnSuccess ==
    [][IF flow' # flow
       THEN /\ Accepted(authReq')
            /\ \E k \in Keys \ (DOMAIN states \cup DOMAIN flow) :
                  /\ DOMAIN states' = DOMAIN states \cup {k}
                  /\ \A j \in DOMAIN states : states'[j] = states[j]
                  /\ states'[k].redirectUri = authReq'.redirect_uri
                  /\ states'[k].clientState = authReq'.state
                  /\ states'[k].codeChallenge = authReq'.code_challenge
                  /\ states'[k].codeChallengeMethod = authReq'.code_challenge_method
                  /\ states'[k].scope = authReq'.scope
                  /\ states'[k].clientId = authReq'.client_id
                  /\ searchParamsGet(authResp'.location.query, "state") = k
       ELSE /\ states' = states
            /\ (authReq' # authReq \/ authResp' # authResp) => ~Accepted(authReq')]_vars

\* a request with a code challenge was stored, and a later request with an
\* unsupported response_type was rejected with the record in the store
C34_Witness ==
    /\ authReq.response_type = "token"
    /\ authResp.status = 302
    /\ \E k \in DOMAIN states : states[k].codeChallenge = "ch4" /\ states[k].clientId = "Y"

\* the callback carried neither a code nor an error, for a key whose record
\* was in the store and young when it arrived
BareCallback(c, k) ==
    /\ Answered(c, k)
    /\ cb[c].known /\ ~cb[c].spent /\ ~cb[c].stale
    /\ cb[c].query.error = "" /\ cb[c].query.code = ""

\* C35: a callback with a stored state and neither code nor error consumes
\* the record and is answered with a 302 error redirect to the recorded
\* redirect URI carrying invalid_request, "Missing authorization code" and
\* the caller's state, and no code parameter.
C35_MissingCode ==
    \A c \in OneCb : \A k \in DOMAIN flow :
       BareCallback(c, k) =>
          LET r == cb[c].resp
              R == flow[k].request.redirect_uri
          IN  /\ k \notin DOMAIN states
              /\ r.status = 302
              /\ r.location.base = R.base
              /\ searchParamsGet(r.location.query, "error") = "invalid_request"
              /\ searchParamsGet(r.location.query, "error_description")
                    = "Missing authorization code"
              /\ searchParamsGet(r.location.query, "state") = flow[k].request.state
              /\ \A i \in 1..Len(r.location.query) : r.location.query[i][1] # "code"

\* the callback had a URL and no state parameter
Stateless(q) == q.hasUrl /\ q.state = ""

\* C36: a callback without a state parameter is answered 400 invalid_request
\* in the step it arrives in: the handler never waits on the state store for
\* it, and the store and the record of consumed keys are as they were.
C36_NoStateNoLookup ==
    /\ [](\A c \in Cbs : Stateless(cb[c].query) =>
             /\ cb[c].pc = "done"
             /\ cb[c].stateData = NoState
             /\ cb[c].resp = Json(400, [NoBody EXCEPT !.error = "invalid_request"]))
    /\ [][\A c \in Cbs :
             (cb'[c] # cb[c] /\ Stateless(cb'[c].query)) =>
                states' = states /\ consumed' = consumed /\ redirected' = redirected]_vars

\* a callback without state was answered while a flow's record, and an
\* expired one, were in the store
C36_Witness ==
    /\ Stateless(cb["c1"].query) /\ cb["c1"].resp.status = 400
    /\ \E k \in DOMAIN states : expired(states[k], now)
    /\ \E k \in DOMAIN states : ~expired(states[k], now)

(***************************************************************************)
(* Properties of cleanup and of the expiry threshold                       *)
(***************************************************************************)
\* the step is the first cleanup of the store
FirstCleanup == ~hist.cleaned /\ hist'.cleaned

\* C37: for the store and the clock as they are, a get of any key returns
\* the same after a cleanup as without it; and a cleanup that runs removes
\* the records that a get at that moment returns null for, and leaves every
\* other record as it was.
C37_CleanupTransparent ==
    /\ [](\A k \in StoreKeys :
             storeGet(storeCleanup(states, now), k, now).value
                = storeGet(states, k, now).value)
    /\ [][FirstCleanup =>
             /\ DOMAIN states' = {k \in DOMAIN states : storeGet(states, k, now).value.found}
             /\ \A k \in DOMAIN states' : states'[k] = states[k]]_vars

\* cleanup ran and took the expired record of one key, and a get of the
\* other key then returned its record
C37_Witness ==
    /\ hist.cleaned
    /\ "a" \in hist.gone /\ "a" \notin hist.lapsed /\ Lapsed("a", now)
    /\ lastGet.called /\ lastGet.key = "b" /\ lastGet.at = now
    /\ lastGet.value.found /\ ~lastGet.wasGone

\* C38: a get of a record that is in the store returns it exactly when its
\* age is at most 600000 ms, and a cleanup keeps a record exactly when its
\* age is at most 600000 ms: at 600000 the record is kept by both, at 600001
\* it is gone for both.
C38_StrictThreshold ==
    /\ []((lastGet.called /\ lastGet.wasSet.found /\ ~lastGet.wasGone) =>
             (lastGet.value.found <=> lastGet.at - lastGet.wasSet.createdAt <= 600000))
    /\ [][FirstCleanup =>
             \A k \in DOMAIN states :
                k \in DOMAIN states' <=> now - states[k].createdAt <= 600000]_vars

\* a record of exactly the window's age was returned by get after a cleanup
\* that kept it
C38_Witness ==
    /\ hist.cleaned
    /\ lastGet.called /\ lastGet.value.found /\ lastGet.at = now
    /\ lastGet.at - lastGet.wasSet.createdAt = 600000
    /\ lastGet.key \notin hist.gone

(***************************************************************************)
(* Properties of the legacy router                                         *)
(***************************************************************************)
\* the router answered a GET of the legacy discovery document
ServedDiscovery ==
    /\ router.served.called
    /\ router.served.method = "GET" /\ router.served.path = LEGACY_WELL_KNOWN

\* C39: once the router is created, it has the route POST /register exactly
\* when the upstream configuration has a registration endpoint; every
\* discovery document it serves has a registration_endpoint exactly when it
\* has that route, and that endpoint is /register under the issuer the
\* document names, the server the request came to; and a POST /register is
\* taken by the registration handler exactly when the route is there.
C39_DiscoveryAgreesWithRoutes ==
    router.created =>
       /\ <<"POST", LEGACY_REGISTER>> \in router.routes <=> oidcConfig.registration_endpoint
       /\ ServedDiscovery =>
             /\ router.served.route = "wellKnown"
             /\ router.served.document.registration_endpoint # Unset
                   <=> <<"POST", LEGACY_REGISTER>> \in router.routes
             /\ router.served.document.issuer
                   = <<router.served.protocol, "://", router.served.host>>
             /\ router.served.document.registration_endpoint # Unset =>
                   router.served.document.registration_endpoint
                      = router.served.document.issuer \o <<"/", "register">>
       /\ (router.served.method = "POST" /\ router.served.path = LEGACY_REGISTER) =>
             (router.served.route = "handleRegistration"
                <=> oidcConfig.registration_endpoint)

\* a discovery document was served without a registration_endpoint
C39_Witness ==
    /\ ServedDiscovery
    /\ ~oidcConfig.registration_endpoint
    /\ router.served.document.registration_endpoint = Unset
    /\ router.served.document.token_endpoint
          = <<"https", "://", "example.com", "/", "token">>

====
